---- MODULE Spec2Model ----
(***************************************************************************)
(* A model of the Gmail gateway of src/gmail_mcp.py: the process-wide      *)
(* session (get_gmail_service), the error classifier (_handle_api_error),  *)
(* the input models (pydantic Field constraints) and the nine tool         *)
(* handlers, run against a remote mailbox whose calls may fail.            *)
(*                                                                         *)
(* A handler contains no await: it runs from its first line to its return  *)
(* without interleaving, so each handler is one action.  Strings that the  *)
(* code inspects (label names and identifiers) are sequences of            *)
(* one-character strings; strings the code only passes along are atoms.    *)
(***************************************************************************)
EXTENDS Integers, Sequences, FiniteSets, TLC

VARIABLES
    tokenFile,        \* the file at TOKEN_PATH: absent, or the pickled credential
    _gmail_service,   \* the module global: None or the built service
    builds,           \* how many times build(...) has been called
    labels,           \* the account's labels, in the order labels().list returns them
    msgLabels,        \* the remote mailbox: message id -> set of label ids
    req,              \* the last invocation: operation and raw parameters
    calls,            \* the remote calls the last invocation issued, in order
    result,           \* what the last invocation returned
    session           \* how get_gmail_service ended in the last invocation,
                      \* and what it raised

vars == <<tokenFile, _gmail_service, builds, labels, msgLabels,
          req, calls, result, session>>

(***************************************************************************)
(* Bounds of the model.                                                    *)
(***************************************************************************)
MaxIds == 3          \* longest message_ids list of a batch invocation
MaxUserLabels == 2   \* user labels the account may hold
MaxFound == 1        \* most message ids a messages().list call returns

(***************************************************************************)
(* Strings.                                                                *)
(***************************************************************************)
UpperCase ==
    <<"A", "B", "C", "D", "E", "F", "G", "H", "I", "J", "K", "L", "M",
      "N", "O", "P", "Q", "R", "S", "T", "U", "V", "W", "X", "Y", "Z">>

LowerCase ==
    <<"a", "b", "c", "d", "e", "f", "g", "h", "i", "j", "k", "l", "m",
      "n", "o", "p", "q", "r", "s", "t", "u", "v", "w", "x", "y", "z">>

UpperToLower ==
    [c \in {UpperCase[i] : i \in 1..26} |->
        LowerCase[CHOOSE i \in 1..26 : UpperCase[i] = c]]

\* str.lower()
lower(s) == [i \in 1..Len(s) |->
                IF s[i] \in DOMAIN UpperToLower THEN UpperToLower[s[i]] ELSE s[i]]

RECURSIVE lstrip(_)
lstrip(s) == IF s # <<>> /\ Head(s) = " " THEN lstrip(Tail(s)) ELSE s

RECURSIVE rstrip(_)
rstrip(s) == IF s # <<>> /\ s[Len(s)] = " "
             THEN rstrip(SubSeq(s, 1, Len(s) - 1)) ELSE s

\* str_strip_whitespace=True: pydantic strips a str field before its constraints
strip(s) == rstrip(lstrip(s))

INBOX == <<"I", "N", "B", "O", "X">>
TRASH == <<"T", "R", "A", "S", "H">>

Digits == <<"1", "2", "3", "4">>

\* the characters of label names in code-point order, by which sorted() orders
Alphabet == Digits \o UpperCase \o LowerCase

ord(c) == CHOOSE i \in 1..Len(Alphabet) : Alphabet[i] = c

\* s < t as Python compares two str
RECURSIVE str_lt(_, _)
str_lt(s, t) ==
    IF t = <<>> THEN FALSE
    ELSE IF s = <<>> THEN TRUE
    ELSE IF Head(s) = Head(t) THEN str_lt(Tail(s), Tail(t))
    ELSE ord(Head(s)) < ord(Head(t))

\* sep.join(parts)
RECURSIVE join(_, _)
join(sep, parts) ==
    IF parts = <<>> THEN <<>>
    ELSE IF Len(parts) = 1 THEN parts[1]
    ELSE parts[1] \o sep \o join(sep, Tail(parts))

\* s.startswith(prefix)
startswith(s, prefix) ==
    Len(s) >= Len(prefix) /\ SubSeq(s, 1, Len(prefix)) = prefix

(***************************************************************************)
(* Exceptions and returned strings.                                        *)
(***************************************************************************)
NoExc == [type |-> "none", status |-> 0, msg |-> ""]

\* googleapiclient.errors.HttpError with e.resp.status = st
HttpError(st) == [type |-> "HttpError", status |-> st, msg |-> "remote error"]

\* raised by get_gmail_service when TOKEN_PATH does not exist
FileNotFoundError ==
    [type |-> "FileNotFoundError", status |-> 0,
     msg |-> "Gmail token not found at TOKEN_PATH. Please provide a valid gmail_token.pickle file."]

\* raised by creds.refresh(Request()) when the token endpoint refuses
RefreshError == [type |-> "RefreshError", status |-> 0, msg |-> "invalid_grant"]

\* a transport failure of a remote call that is no HttpError
TimeoutError == [type |-> "TimeoutError", status |-> 0, msg |-> "timed out"]

\* the statuses a remote call is made to fail with
Statuses == {400, 403, 404, 429, 500}

RemoteErrors == {HttpError(st) : st \in Statuses} \cup {TimeoutError}

\* A returned string: its first token (head), the fixed text that follows,
\* and the values interpolated into it.
Str(head, text, status, typeName, msg, count, label) ==
    [head |-> head, text |-> text, status |-> status, typeName |-> typeName,
     msg |-> msg, count |-> count, label |-> label, items |-> <<>>]

NoResult == Str("", "", 0, "", "", 0, <<>>)

\* _handle_api_error without its 429 branch
_handle_api_error_no_429(e) ==
    IF e.type = "HttpError" THEN
        CASE e.status = 404 ->
               Str("Error:", "Resource not found. Please check the ID is correct.",
                   0, "", "", 0, <<>>)
          [] e.status = 403 ->
               Str("Error:", "Permission denied. Check your Gmail API permissions.",
                   0, "", "", 0, <<>>)
          [] e.status = 400 ->
               Str("Error:", "Invalid request.", 0, "", "error_details", 0, <<>>)
          [] OTHER ->
               Str("Error:", "Gmail API error (status)", e.status, "", "", 0, <<>>)
    ELSE IF e.type = "FileNotFoundError" THEN
        Str("Gmail", e.msg, 0, "", "", 0, <<>>)
    ELSE
        Str("Error:", "type(e).__name__: str(e)", 0, e.type, e.msg, 0, <<>>)

\* _handle_api_error(e)
_handle_api_error(e) ==
    IF e.type = "HttpError" THEN
        CASE e.status = 404 ->
               Str("Error:", "Resource not found. Please check the ID is correct.",
                   0, "", "", 0, <<>>)
          [] e.status = 403 ->
               Str("Error:", "Permission denied. Check your Gmail API permissions.",
                   0, "", "", 0, <<>>)
          [] e.status = 429 ->
               Str("Error:", "Rate limit exceeded. Please wait before making more requests.",
                   0, "", "", 0, <<>>)
          [] e.status = 400 ->
               Str("Error:", "Invalid request.", 0, "", "error_details", 0, <<>>)
          [] OTHER ->
               Str("Error:", "Gmail API error (status)", e.status, "", "", 0, <<>>)
    ELSE IF e.type = "FileNotFoundError" THEN
        \* return str(e): the exception's message and nothing else
        Str("Gmail", e.msg, 0, "", "", 0, <<>>)
    ELSE
        Str("Error:", "type(e).__name__: str(e)", 0, e.type, e.msg, 0, <<>>)

(***************************************************************************)
(* Message content.  A header is [name, value]; a body is [present, raises,*)
(* text]: whether it has a 'data' key, what decoding that data raises      *)
(* (NoExc when it decodes), and the text it decodes to; a payload is       *)
(* [headers, hasParts, parts, hasBody, body]; a part is [mimeType, body].  *)
(***************************************************************************)
\* raised by bytes.decode('utf-8') on data that is no UTF-8
UnicodeDecodeError ==
    [type |-> "UnicodeDecodeError", status |-> 0, msg |-> "invalid start byte"]

\* raised by base64.urlsafe_b64decode on data that is no base64
BinasciiError == [type |-> "Error", status |-> 0, msg |-> "Incorrect padding"]

Header(name, value) == [name |-> name, value |-> value]

Data(text) == [present |-> TRUE, raises |-> NoExc, text |-> text]

NoData == [present |-> FALSE, raises |-> NoExc, text |-> <<>>]

Malformed(e) == [present |-> TRUE, raises |-> e, text |-> <<>>]

Part(mimeType, body) == [mimeType |-> mimeType, body |-> body]

\* _get_header_value matching the name as it is written
RECURSIVE _get_header_value_exact(_, _)
_get_header_value_exact(headers, name) ==
    IF headers = <<>> THEN <<>>
    ELSE IF Head(headers).name = name THEN Head(headers).value
    ELSE _get_header_value_exact(Tail(headers), name)

\* _get_header_value(headers, name)
RECURSIVE _get_header_value(_, _)
_get_header_value(headers, name) ==
    IF headers = <<>> THEN <<>>
    ELSE IF lower(Head(headers).name) = lower(name) THEN Head(headers).value
    ELSE _get_header_value(Tail(headers), name)

\* the loop of _decode_message_body with the text/html branch taken
\* whatever body holds: a later text/html part replaces an earlier one
RECURSIVE decode_parts_last_html(_, _, _)
decode_parts_last_html(parts, i, body) ==
    IF i > Len(parts) THEN [exc |-> NoExc, body |-> body]
    ELSE IF parts[i].mimeType = "text/plain" /\ parts[i].body.present THEN
        IF parts[i].body.raises # NoExc
        THEN [exc |-> parts[i].body.raises, body |-> <<>>]
        ELSE [exc |-> NoExc, body |-> parts[i].body.text]
    ELSE IF parts[i].mimeType = "text/html" /\ parts[i].body.present THEN
        IF parts[i].body.raises # NoExc
        THEN [exc |-> parts[i].body.raises, body |-> <<>>]
        ELSE decode_parts_last_html(parts, i + 1, parts[i].body.text)
    ELSE decode_parts_last_html(parts, i + 1, body)

\* the loop of _decode_message_body over payload['parts'], from part i on,
\* with body what the parts before i left: a text/plain part with data ends
\* the loop, a text/html part with data is decoded while body is still empty
RECURSIVE decode_parts(_, _, _)
decode_parts(parts, i, body) ==
    IF i > Len(parts) THEN [exc |-> NoExc, body |-> body]
    ELSE IF parts[i].mimeType = "text/plain" /\ parts[i].body.present THEN
        IF parts[i].body.raises # NoExc
        THEN [exc |-> parts[i].body.raises, body |-> <<>>]
        ELSE [exc |-> NoExc, body |-> parts[i].body.text]
    ELSE IF parts[i].mimeType = "text/html" /\ body = <<>> /\ parts[i].body.present THEN
        IF parts[i].body.raises # NoExc
        THEN [exc |-> parts[i].body.raises, body |-> <<>>]
        ELSE decode_parts(parts, i + 1, parts[i].body.text)
    ELSE decode_parts(parts, i + 1, body)

\* _decode_message_body(payload): the exception it raises, or the body
_decode_message_body(payload) ==
    IF payload.hasParts THEN decode_parts(payload.parts, 1, <<>>)
    ELSE IF payload.hasBody /\ payload.body.present THEN
        IF payload.body.raises # NoExc
        THEN [exc |-> payload.body.raises, body |-> <<>>]
        ELSE [exc |-> NoExc, body |-> payload.body.text]
    ELSE [exc |-> NoExc, body |-> <<>>]

(***************************************************************************)
(* The session: get_gmail_service.                                         *)
(***************************************************************************)
NoToken == [exists |-> FALSE, expired |-> FALSE, refresh_token |-> FALSE]

Token(expired, refresh_token) ==
    [exists |-> TRUE, expired |-> expired, refresh_token |-> refresh_token]

None == [built |-> FALSE, id |-> 0, expired |-> FALSE, refresh_token |-> FALSE]

\* build('gmail', 'v1', credentials=creds): the n-th service built
build(n, creds) ==
    [built |-> TRUE, id |-> n, expired |-> creds.expired,
     refresh_token |-> creds.refresh_token]

\* get_gmail_service with the assignment to the global left out: the service
\* is built and returned, never kept
get_gmail_service_uncached(svc, tok, nb, refreshOk) ==
    IF svc # None THEN
        [exc |-> NoExc, service |-> svc, tok |-> tok, builds |-> nb, how |-> "cached"]
    ELSE IF ~tok.exists THEN
        [exc |-> FileNotFoundError, service |-> svc, tok |-> tok, builds |-> nb,
         how |-> "raised"]
    ELSE IF tok.expired /\ tok.refresh_token THEN
        IF refreshOk THEN
            [exc |-> NoExc, service |-> None, tok |-> Token(FALSE, TRUE),
             builds |-> nb + 1, how |-> "built"]
        ELSE
            [exc |-> RefreshError, service |-> svc, tok |-> tok, builds |-> nb,
             how |-> "raised"]
    ELSE
        [exc |-> NoExc, service |-> None, tok |-> tok, builds |-> nb + 1,
         how |-> "built"]

\* get_gmail_service with the global assigned before the token file is
\* looked for: a call that raises for a missing file leaves a service behind
get_gmail_service_caching_failure(svc, tok, nb, refreshOk) ==
    IF svc # None THEN
        [exc |-> NoExc, service |-> svc, tok |-> tok, builds |-> nb, how |-> "cached"]
    ELSE IF ~tok.exists THEN
        [exc |-> FileNotFoundError, service |-> build(nb + 1, tok), tok |-> tok,
         builds |-> nb, how |-> "raised"]
    ELSE IF tok.expired /\ tok.refresh_token THEN
        IF refreshOk THEN
            [exc |-> NoExc, service |-> build(nb + 1, Token(FALSE, TRUE)),
             tok |-> Token(FALSE, TRUE), builds |-> nb + 1, how |-> "built"]
        ELSE
            [exc |-> RefreshError, service |-> svc, tok |-> tok, builds |-> nb,
             how |-> "raised"]
    ELSE
        [exc |-> NoExc, service |-> build(nb + 1, tok), tok |-> tok,
         builds |-> nb + 1, how |-> "built"]

\* get_gmail_service(), with refreshOk the outcome of creds.refresh should it
\* be called.  Yields what is raised or returned, and the global, the file
\* and the build count as the call leaves them.
get_gmail_service(svc, tok, nb, refreshOk) ==
    IF svc # None THEN
        [exc |-> NoExc, service |-> svc, tok |-> tok, builds |-> nb,
         how |-> "cached"]
    ELSE IF ~tok.exists THEN
        [exc |-> FileNotFoundError, service |-> svc, tok |-> tok, builds |-> nb,
         how |-> "raised"]
    ELSE IF tok.expired /\ tok.refresh_token THEN
        IF refreshOk THEN
            LET creds == Token(FALSE, TRUE) IN
            [exc |-> NoExc, service |-> build(nb + 1, creds), tok |-> creds,
             builds |-> nb + 1, how |-> "built"]
        ELSE
            [exc |-> RefreshError, service |-> svc, tok |-> tok, builds |-> nb,
             how |-> "raised"]
    ELSE
        [exc |-> NoExc, service |-> build(nb + 1, tok), tok |-> tok,
         builds |-> nb + 1, how |-> "built"]

(***************************************************************************)
(* The input models: what pydantic accepts before a handler is entered.    *)
(***************************************************************************)
ResponseFormat == {"markdown", "json"}

\* Field(min_length=1) on a str field of a model with str_strip_whitespace
NonEmptyStr(s) == Len(strip(s)) >= 1

\* Field(min_items=1) on a List[str] field
NonEmptyList(l) == Len(l) >= 1

SearchEmailsInput(query, max_results, response_format) ==
    /\ NonEmptyStr(query)
    /\ max_results >= 1 /\ max_results <= 100
    /\ response_format \in ResponseFormat

GetEmailInput(message_id, response_format) ==
    NonEmptyStr(message_id) /\ response_format \in ResponseFormat

SendEmailInput(to, subject, body) ==
    NonEmptyList(to) /\ NonEmptyStr(subject) /\ NonEmptyStr(body)

ReplyToEmailInput(thread_id, body) ==
    NonEmptyStr(thread_id) /\ NonEmptyStr(body)

\* add_labels and remove_labels are Optional[List[str]] with no constraint
ModifyLabelsInput(message_ids, add_labels, remove_labels) ==
    NonEmptyList(message_ids)

ArchiveEmailsInput(message_ids) == NonEmptyList(message_ids)

DeleteEmailsInput(message_ids) == NonEmptyList(message_ids)

ListLabelsInput(response_format) == response_format \in ResponseFormat

\* label_list_visibility and message_list_visibility are plain str fields:
\* their description lists the values, no constraint enforces them
CreateLabelInput(name, label_list_visibility, message_list_visibility) ==
    Len(strip(name)) >= 1 /\ Len(strip(name)) <= 100

(***************************************************************************)
(* The last invocation, as the caller made it.                             *)
(***************************************************************************)
NoReq ==
    [op |-> "none", query |-> <<>>, max_results |-> 0, include_body |-> FALSE,
     response_format |-> "", message_id |-> <<>>, to |-> <<>>, subject |-> <<>>,
     body |-> <<>>, thread_id |-> <<>>, reply_all |-> FALSE, message_ids |-> <<>>,
     add_labels |-> <<>>, remove_labels |-> <<>>, name |-> <<>>,
     label_list_visibility |-> "", message_list_visibility |-> ""]

(***************************************************************************)
(* The remote mailbox.                                                     *)
(***************************************************************************)
m1 == <<"m", "1">>
m2 == <<"m", "2">>
MsgIds == {m1, m2}

SystemLabels ==
    << [id |-> INBOX, name |-> INBOX, type |-> "system"],
       [id |-> TRASH, name |-> TRASH, type |-> "system"] >>

UserLabels(ls) == SelectSeq(ls, LAMBDA l : l.type = "user")

\* the identifier the remote assigns to the next user label: Label_1, Label_2, ...
NextLabelId(ls) == <<"L", Digits[Len(UserLabels(ls)) + 1]>>

\* one remote call as issued: the method, the id or name it is about, the
\* label ids of a modify body, and what it raised (NoExc when it returned)
Call(api, id, add, remove, exc) ==
    [api |-> api, id |-> id, add |-> add, remove |-> remove, exc |-> exc,
     sent |-> [kind |-> "none"], ret |-> [kind |-> "none"]]

\* the call c with the resource the remote answered it with
Returning(c, resource) == [c EXCEPT !.ret = resource]

\* the call c with the message it transmits
Sending(c, message) == [c EXCEPT !.sent = message]

\* a message resource as messages().get and threads().get return it
Message(id, threadId, headers, content, snippet, labelIds) ==
    [kind |-> "message", id |-> id, threadId |-> threadId,
     payload |-> [headers |-> headers, hasParts |-> content.hasParts,
                  parts |-> content.parts, hasBody |-> content.hasBody,
                  body |-> content.body],
     snippet |-> snippet, labelIds |-> labelIds]

\* a payload whose content is its direct body
Single(body) == [hasParts |-> FALSE, parts |-> <<>>, hasBody |-> TRUE, body |-> body]

\* a multipart payload
Multipart(parts) == [hasParts |-> TRUE, parts |-> parts, hasBody |-> TRUE, body |-> NoData]

\* a thread resource: its messages, oldest first
Thread(messages) == [kind |-> "thread", messages |-> messages]

\* the fault plan of one invocation: its at-th remote call raises exc
NoFault == [at |-> 0, exc |-> NoExc]

Faults(n) == {NoFault} \cup {[at |-> k, exc |-> e] : k \in 1..n, e \in RemoteErrors}

\* does the call issued after those of log raise?
Raises(log, fault) == fault.at = Len(log) + 1

Range(q) == {q[i] : i \in 1..Len(q)}

\* users().messages().modify(id, body) on the remote
RemoteModify(box, id, add, remove) ==
    [box EXCEPT ![id] = (@ \ Range(remove)) \cup Range(add)]

\* users().messages().trash(id) on the remote
RemoteTrash(box, id) == [box EXCEPT ![id] = (@ \ {INBOX}) \cup {TRASH}]

(***************************************************************************)
(* The per-message loops of archive_emails, delete_emails, modify_labels.  *)
(* Each yields the exception that ended it (NoExc when it ran through),    *)
(* the mailbox, the calls issued and the count reached.                    *)
(***************************************************************************)
\* the archive loop with a failed call passed over: the loop goes on to the
\* next message
RECURSIVE archive_loop_continuing(_, _, _, _, _)
archive_loop_continuing(message_ids, i, box, log, fault) ==
    IF i > Len(message_ids) THEN
        [exc |-> NoExc, box |-> box, log |-> log, count |-> i - 1]
    ELSE LET c(e) == Call("messages.modify", message_ids[i], <<>>, <<INBOX>>, e) IN
         IF Raises(log, fault) THEN
             archive_loop_continuing(message_ids, i + 1, box,
                                     Append(log, c(fault.exc)), fault)
         ELSE archive_loop_continuing(message_ids, i + 1,
                                      RemoteModify(box, message_ids[i], <<>>, <<INBOX>>),
                                      Append(log, c(NoExc)), fault)

RECURSIVE archive_loop(_, _, _, _, _)
archive_loop(message_ids, i, box, log, fault) ==
    IF i > Len(message_ids) THEN
        [exc |-> NoExc, box |-> box, log |-> log, count |-> i - 1]
    ELSE LET c(e) == Call("messages.modify", message_ids[i], <<>>, <<INBOX>>, e) IN
         IF Raises(log, fault) THEN
             [exc |-> fault.exc, box |-> box, log |-> Append(log, c(fault.exc)),
              count |-> i - 1]
         ELSE archive_loop(message_ids, i + 1,
                           RemoteModify(box, message_ids[i], <<>>, <<INBOX>>),
                           Append(log, c(NoExc)), fault)

RECURSIVE delete_loop(_, _, _, _, _)
delete_loop(message_ids, i, box, log, fault) ==
    IF i > Len(message_ids) THEN
        [exc |-> NoExc, box |-> box, log |-> log, count |-> i - 1]
    ELSE LET c(e) == Call("messages.trash", message_ids[i], <<>>, <<>>, e) IN
         IF Raises(log, fault) THEN
             [exc |-> fault.exc, box |-> box, log |-> Append(log, c(fault.exc)),
              count |-> i - 1]
         ELSE delete_loop(message_ids, i + 1, RemoteTrash(box, message_ids[i]),
                          Append(log, c(NoExc)), fault)

RECURSIVE modify_loop(_, _, _, _, _, _, _)
modify_loop(message_ids, i, add, remove, box, log, fault) ==
    IF i > Len(message_ids) THEN
        [exc |-> NoExc, box |-> box, log |-> log, count |-> i - 1]
    ELSE LET c(e) == Call("messages.modify", message_ids[i], add, remove, e) IN
         IF Raises(log, fault) THEN
             [exc |-> fault.exc, box |-> box, log |-> Append(log, c(fault.exc)),
              count |-> i - 1]
         ELSE modify_loop(message_ids, i + 1, add, remove,
                          RemoteModify(box, message_ids[i], add, remove),
                          Append(log, c(NoExc)), fault)

(***************************************************************************)
(* Label resolution in modify_labels.                                      *)
(***************************************************************************)
\* dict.update: the keys of d2 take d2's values
Update(d1, d2) ==
    [k \in DOMAIN d1 \cup DOMAIN d2 |-> IF k \in DOMAIN d2 THEN d2[k] ELSE d1[k]]

\* {label['name']: label['id'] for label in ls}: a later label wins a key
RECURSIVE ByName(_)
ByName(ls) ==
    IF ls = <<>> THEN <<>>
    ELSE LET l == ls[Len(ls)] IN
         Update(ByName(SubSeq(ls, 1, Len(ls) - 1)), [k \in {l.name} |-> l.id])

\* {label['id']: label['id'] for label in ls}
ById(ls) == [k \in {ls[i].id : i \in 1..Len(ls)} |-> k]

\* label_map with the two dicts merged the other way round: a name wins
\* over an identifier that is spelled the same
label_map_names_win(ls) == Update(ById(ls), ByName(ls))

\* label_map = {name: id ...}; label_map.update({id: id ...})
label_map(ls) == Update(ByName(ls), ById(ls))

\* the resolution loop with a name that is no key skipped instead of reported
RECURSIVE resolve_skipping(_, _, _, _)
resolve_skipping(names, i, map, ids) ==
    IF i > Len(names) THEN [found |-> TRUE, ids |-> ids, label |-> <<>>]
    ELSE IF names[i] \in DOMAIN map
         THEN resolve_skipping(names, i + 1, map, Append(ids, map[names[i]]))
         ELSE resolve_skipping(names, i + 1, map, ids)

\* the loop over params.add_labels (and the same loop over remove_labels):
\* the identifiers resolved so far, or the first name that is no key
RECURSIVE resolve(_, _, _, _)
resolve(names, i, map, ids) ==
    IF i > Len(names) THEN [found |-> TRUE, ids |-> ids, label |-> <<>>]
    ELSE IF names[i] \in DOMAIN map
         THEN resolve(names, i + 1, map, Append(ids, map[names[i]]))
         ELSE [found |-> FALSE, ids |-> ids, label |-> names[i]]

(***************************************************************************)
(* The handlers.  Each is the whole tool call: the framework validates the *)
(* parameters against the input model, then the handler body runs inside   *)
(* its try/except and returns one string.  The part of a handler after     *)
(* get_gmail_service is an operator of its own (..._body) that yields the  *)
(* calls issued (log), the string returned (res) and the account's labels  *)
(* (ls) and mailbox (box) as the handler leaves them.                      *)
(***************************************************************************)
CheckMark == "U+2713"

\* the framework refuses the parameters: the handler is not entered
ValidationError == Str("ValidationError", "input validation failed", 0, "", "", 0, <<>>)

NotCalled == [how |-> "notcalled", exc |-> NoExc]

Rejected(r) ==
    /\ req' = r
    /\ calls' = <<>>
    /\ result' = ValidationError
    /\ session' = NotCalled
    /\ UNCHANGED <<tokenFile, _gmail_service, builds, labels, msgLabels>>

\* the handler returns res, with s the outcome of its get_gmail_service call
Return(r, s, log, res, ls, box) ==
    /\ req' = r
    /\ calls' = log
    /\ result' = res
    /\ session' = [how |-> s.how, exc |-> s.exc]
    /\ tokenFile' = s.tok
    /\ _gmail_service' = s.service
    /\ builds' = s.builds
    /\ labels' = ls
    /\ msgLabels' = box

\* The skeleton every handler shares:
\*     try:
\*         service = get_gmail_service()
\*         ...                                   (the body, yielding o)
\*     except Exception as e:
\*         return _handle_api_error(e)
\* entered only with parameters the input model accepts (valid).
tool(valid, r, s, o) ==
    IF ~valid THEN Rejected(r)
    ELSE IF s.exc # NoExc
    THEN Return(r, s, <<>>, _handle_api_error(s.exc), labels, msgLabels)
    ELSE Return(r, s, o.log, o.res, o.ls, o.box)

\* loop_result reporting the count reached also when the loop raised
loop_result_partial(o, ls, text) ==
    [log |-> o.log, res |-> Str(CheckMark, text, 0, "", "", o.count, <<>>),
     ls |-> ls, box |-> o.box]

\* what a handler makes of its loop's outcome o: the classified error when
\* the loop raised, the success string with the count when it ran through
loop_result(o, ls, text) ==
    [log |-> o.log,
     res |-> IF o.exc # NoExc THEN _handle_api_error(o.exc)
             ELSE Str(CheckMark, text, 0, "", "", o.count, <<>>),
     ls |-> ls, box |-> o.box]

archive_emails_body(message_ids, ls, box, fault) ==
    loop_result(archive_loop(message_ids, 1, box, <<>>, fault), ls,
                "Successfully archived message(s)")

archive_emails(message_ids, fault, refreshOk) ==
    tool(ArchiveEmailsInput(message_ids),
         [NoReq EXCEPT !.op = "archive_emails", !.message_ids = message_ids],
         get_gmail_service(_gmail_service, tokenFile, builds, refreshOk),
         archive_emails_body(message_ids, labels, msgLabels, fault))

delete_emails_body(message_ids, ls, box, fault) ==
    loop_result(delete_loop(message_ids, 1, box, <<>>, fault), ls,
                "Successfully moved message(s) to trash")

delete_emails(message_ids, fault, refreshOk) ==
    tool(DeleteEmailsInput(message_ids),
         [NoReq EXCEPT !.op = "delete_emails", !.message_ids = message_ids],
         get_gmail_service(_gmail_service, tokenFile, builds, refreshOk),
         delete_emails_body(message_ids, labels, msgLabels, fault))

LabelNotFound(label) ==
    Str("Error:", "Label not found. Use gmail_list_labels to see available labels.",
        0, "", "", 0, label)

NoLabelOperation ==
    Str("Error:", "No labels to add or remove. Specify at least one label operation.",
        0, "", "", 0, <<>>)

LabelsListCall(e) == Call("labels.list", <<>>, <<>>, <<>>, e)

\* modify_labels from the first resolution loop on: add and remove are the
\* outcomes of the two loops over params.add_labels and params.remove_labels
modify_labels_resolved(message_ids, add, remove, ls, box, fault) ==
    IF ~add.found THEN
        [log |-> <<LabelsListCall(NoExc)>>, res |-> LabelNotFound(add.label),
         ls |-> ls, box |-> box]
    ELSE IF ~remove.found THEN
        [log |-> <<LabelsListCall(NoExc)>>, res |-> LabelNotFound(remove.label),
         ls |-> ls, box |-> box]
    ELSE IF add.ids = <<>> /\ remove.ids = <<>> THEN
        [log |-> <<LabelsListCall(NoExc)>>, res |-> NoLabelOperation,
         ls |-> ls, box |-> box]
    ELSE loop_result(modify_loop(message_ids, 1, add.ids, remove.ids, box,
                                 <<LabelsListCall(NoExc)>>, fault),
                     ls, "Successfully modified message(s)")

\* modify_labels once the labels().list call returned ls
modify_labels_listed(message_ids, add_labels, remove_labels, map, ls, box, fault) ==
    modify_labels_resolved(message_ids, resolve(add_labels, 1, map, <<>>),
                           resolve(remove_labels, 1, map, <<>>), ls, box, fault)

modify_labels_body(message_ids, add_labels, remove_labels, ls, box, fault) ==
    IF Raises(<<>>, fault) THEN
        [log |-> <<LabelsListCall(fault.exc)>>, res |-> _handle_api_error(fault.exc),
         ls |-> ls, box |-> box]
    ELSE modify_labels_listed(message_ids, add_labels, remove_labels,
                              label_map(ls), ls, box, fault)

modify_labels(message_ids, add_labels, remove_labels, fault, refreshOk) ==
    tool(ModifyLabelsInput(message_ids, add_labels, remove_labels),
         [NoReq EXCEPT !.op = "modify_labels", !.message_ids = message_ids,
                       !.add_labels = add_labels, !.remove_labels = remove_labels],
         get_gmail_service(_gmail_service, tokenFile, builds, refreshOk),
         modify_labels_body(message_ids, add_labels, remove_labels, labels,
                            msgLabels, fault))

DuplicateLabel(id) == Str("Error:", "Label already exists (ID)", 0, "", "", 0, id)

\* the duplicate loop comparing the names as they are spelled
RECURSIVE first_duplicate_exact(_, _, _)
first_duplicate_exact(ls, i, name) ==
    IF i > Len(ls) THEN 0
    ELSE IF ls[i].name = name THEN i
    ELSE first_duplicate_exact(ls, i + 1, name)

\* the loop over existing_labels in create_label: the position of the first
\* label whose lower-cased name is the lower-cased new name, or 0
RECURSIVE first_duplicate(_, _, _)
first_duplicate(ls, i, name) ==
    IF i > Len(ls) THEN 0
    ELSE IF lower(ls[i].name) = lower(name) THEN i
    ELSE first_duplicate(ls, i + 1, name)

\* users().labels().create(body) on the remote: a new user label at the end
RemoteCreate(ls, name) ==
    Append(ls, [id |-> NextLabelId(ls), name |-> name, type |-> "user"])

LabelsCreateCall(name, e) == Call("labels.create", name, <<>>, <<>>, e)

\* create_label once the labels().list call returned ls, with d the outcome
\* of the duplicate loop; name is params.name
create_label_listed(name, d, ls, box, fault) ==
    IF d # 0 THEN
        [log |-> <<LabelsListCall(NoExc)>>, res |-> DuplicateLabel(ls[d].id),
         ls |-> ls, box |-> box]
    ELSE IF Raises(<<LabelsListCall(NoExc)>>, fault) THEN
        [log |-> <<LabelsListCall(NoExc), LabelsCreateCall(name, fault.exc)>>,
         res |-> _handle_api_error(fault.exc), ls |-> ls, box |-> box]
    ELSE
        [log |-> <<LabelsListCall(NoExc), LabelsCreateCall(name, NoExc)>>,
         res |-> Str(CheckMark, "Label created successfully!", 0, "", "", 0,
                     NextLabelId(ls)),
         ls |-> RemoteCreate(ls, name), box |-> box]

create_label_body(name, ls, box, fault) ==
    IF Raises(<<>>, fault) THEN
        [log |-> <<LabelsListCall(fault.exc)>>, res |-> _handle_api_error(fault.exc),
         ls |-> ls, box |-> box]
    ELSE create_label_listed(name, first_duplicate(ls, 1, name), ls, box, fault)

create_label(name, label_list_visibility, message_list_visibility, fault, refreshOk) ==
    /\ Len(UserLabels(labels)) < MaxUserLabels
    /\ tool(CreateLabelInput(name, label_list_visibility, message_list_visibility),
            [NoReq EXCEPT !.op = "create_label", !.name = name,
                          !.label_list_visibility = label_list_visibility,
                          !.message_list_visibility = message_list_visibility],
            get_gmail_service(_gmail_service, tokenFile, builds, refreshOk),
            create_label_body(strip(name), labels, msgLabels, fault))

\* one named field of a rendered item
Field(k, v) == [k |-> k, v |-> v]

\* a returned document: the string res with the items rendered into it
Doc(res, items) == [res EXCEPT !.items = items]

\* sorted(ls, key=lambda x: x['name']) by insertion, stable
RECURSIVE insert_by_name(_, _)
insert_by_name(sorted, l) ==
    IF sorted = <<>> THEN <<l>>
    ELSE IF str_lt(l.name, Head(sorted).name) THEN <<l>> \o sorted
    ELSE <<Head(sorted)>> \o insert_by_name(Tail(sorted), l)

RECURSIVE sorted_by_name(_)
sorted_by_name(ls) ==
    IF ls = <<>> THEN <<>>
    ELSE insert_by_name(sorted_by_name(SubSeq(ls, 1, Len(ls) - 1)), ls[Len(ls)])

\* the JSON document of list_labels: one object per label, in list order
RECURSIVE labels_json(_)
labels_json(ls) ==
    IF ls = <<>> THEN <<>>
    ELSE << <<Field("id", Head(ls).id), Field("name", Head(ls).name),
              Field("type", Head(ls).type)>> >> \o labels_json(Tail(ls))

\* one group of the Markdown document of list_labels: a bullet per label
\* under the group's heading
RECURSIVE labels_group(_, _)
labels_group(heading, ls) ==
    IF ls = <<>> THEN <<>>
    ELSE << <<Field("##", heading), Field("name", Head(ls).name),
              Field("id", Head(ls).id)>> >> \o labels_group(heading, Tail(ls))

\* the Markdown document of list_labels: system labels, then user labels,
\* each group sorted by name
labels_markdown(ls) ==
    labels_group("System Labels",
                 sorted_by_name(SelectSeq(ls, LAMBDA l : l.type = "system")))
    \o labels_group("User Labels",
                    sorted_by_name(SelectSeq(ls, LAMBDA l : l.type = "user")))

list_labels_body(response_format, ls, box, fault) ==
    IF Raises(<<>>, fault) THEN
        [log |-> <<LabelsListCall(fault.exc)>>, res |-> _handle_api_error(fault.exc),
         ls |-> ls, box |-> box]
    ELSE
        [log |-> <<LabelsListCall(NoExc)>>,
         res |-> IF ls = <<>> THEN Str("No", "No labels found.", 0, "", "", 0, <<>>)
                 ELSE IF response_format = "json"
                 THEN Doc(Str("{", "total_labels, labels", 0, "", "", Len(ls), <<>>),
                          labels_json(ls))
                 ELSE Doc(Str("#", "Gmail Labels", 0, "", "", Len(ls), <<>>),
                          labels_markdown(ls)),
         ls |-> ls, box |-> box]

list_labels(response_format, fault, refreshOk) ==
    tool(ListLabelsInput(response_format),
         [NoReq EXCEPT !.op = "list_labels", !.response_format = response_format],
         get_gmail_service(_gmail_service, tokenFile, builds, refreshOk),
         list_labels_body(response_format, labels, msgLabels, fault))

\* the characters of a body the Markdown of search_emails shows
BodyPreview == 500

\* body[:500] followed by '...' when the body is longer
preview(body) ==
    IF Len(body) > BodyPreview
    THEN SubSeq(body, 1, BodyPreview) \o <<".", ".", ".">>
    ELSE body

From == <<"F", "r", "o", "m">>
To == <<"T", "o">>
Cc == <<"C", "c">>
Bcc == <<"B", "c", "c">>
Subject == <<"S", "u", "b", "j", "e", "c", "t">>
Date == <<"D", "a", "t", "e">>
MessageID == <<"M", "e", "s", "s", "a", "g", "e", "-", "I", "D">>

\* message_info of search_emails: the JSON object of one message; body is
\* what _decode_message_body made of its payload
message_info(msg, include_body, body) ==
    << Field("id", msg.id), Field("thread_id", msg.threadId),
       Field("from", _get_header_value(msg.payload.headers, From)),
       Field("to", _get_header_value(msg.payload.headers, To)),
       Field("subject", _get_header_value(msg.payload.headers, Subject)),
       Field("date", _get_header_value(msg.payload.headers, Date)),
       Field("snippet", msg.snippet), Field("labels", msg.labelIds) >>
    \o (IF include_body THEN <<Field("body", body)>> ELSE <<>>)

\* the Markdown section of one message in search_emails
message_section(msg, include_body, body) ==
    << Field("ID", msg.id), Field("Thread ID", msg.threadId),
       Field("From", _get_header_value(msg.payload.headers, From)),
       Field("To", _get_header_value(msg.payload.headers, To)),
       Field("Subject", _get_header_value(msg.payload.headers, Subject)),
       Field("Date", _get_header_value(msg.payload.headers, Date)),
       Field("Labels", join(<<",", " ">>, msg.labelIds)),
       Field("Snippet", msg.snippet) >>
    \o (IF include_body THEN <<Field("Body", preview(body))>> ELSE <<>>)

\* the formatting loop of search_emails over detailed_messages, from
\* message i on: the exception a _decode_message_body call raised, or the
\* items rendered
RECURSIVE format_messages(_, _, _, _, _)
format_messages(detailed, i, response_format, include_body, items) ==
    IF i > Len(detailed) THEN [exc |-> NoExc, items |-> items]
    ELSE LET d == IF include_body THEN _decode_message_body(detailed[i].payload)
                  ELSE [exc |-> NoExc, body |-> <<>>]
         IN  IF d.exc # NoExc THEN [exc |-> d.exc, items |-> <<>>]
             ELSE format_messages(
                      detailed, i + 1, response_format, include_body,
                      Append(items,
                             IF response_format = "json"
                             THEN message_info(detailed[i], include_body, d.body)
                             ELSE message_section(detailed[i], include_body, d.body)))

MessagesGetCall(id, e) == Call("messages.get", id, <<>>, <<>>, e)

\* the fetch loop of search_emails with a failed get passed over
RECURSIVE search_loop_skipping(_, _, _, _, _, _)
search_loop_skipping(messages, i, mail, log, detailed, fault) ==
    IF i > Len(messages) THEN [exc |-> NoExc, log |-> log, detailed |-> detailed]
    ELSE IF Raises(log, fault) THEN
        search_loop_skipping(messages, i + 1, mail,
                             Append(log, MessagesGetCall(messages[i], fault.exc)),
                             detailed, fault)
    ELSE search_loop_skipping(messages, i + 1, mail,
                     Append(log, Returning(MessagesGetCall(messages[i], NoExc),
                                           mail[messages[i]])),
                     Append(detailed, mail[messages[i]]), fault)

\* the loop of search_emails over the listed messages: one get per message,
\* each answered with the message mail holds under that id
RECURSIVE search_loop(_, _, _, _, _, _)
search_loop(messages, i, mail, log, detailed, fault) ==
    IF i > Len(messages) THEN [exc |-> NoExc, log |-> log, detailed |-> detailed]
    ELSE IF Raises(log, fault) THEN
        [exc |-> fault.exc, log |-> Append(log, MessagesGetCall(messages[i], fault.exc)),
         detailed |-> detailed]
    ELSE search_loop(messages, i + 1, mail,
                     Append(log, Returning(MessagesGetCall(messages[i], NoExc),
                                           mail[messages[i]])),
                     Append(detailed, mail[messages[i]]), fault)

\* search_emails once its items are formatted, f the outcome of formatting
search_emails_formatted(response_format, o, f, ls, box) ==
    [log |-> o.log,
     res |-> IF f.exc # NoExc THEN _handle_api_error(f.exc)
             ELSE IF response_format = "json"
             THEN Doc(Str("{", "total_results, query, messages", 0, "", "",
                          Len(o.detailed), <<>>), f.items)
             ELSE Doc(Str("#", "Search Results", 0, "", "", Len(o.detailed), <<>>),
                      f.items),
     ls |-> ls, box |-> box]

\* search_emails after its fetch loop, whose outcome is o
search_emails_fetched(response_format, include_body, o, ls, box) ==
    IF o.exc # NoExc
    THEN [log |-> o.log, res |-> _handle_api_error(o.exc), ls |-> ls, box |-> box]
    ELSE search_emails_formatted(response_format, o,
             format_messages(o.detailed, 1, response_format, include_body, <<>>),
             ls, box)

MessagesListCall(e) == Call("messages.list", <<>>, <<>>, <<>>, e)

\* what messages().list answers: the ids of the matching messages, in the
\* remote's order
Listing(messages) == [kind |-> "list", messages |-> messages]

\* messages is what the remote list call returns for the query
search_emails_body(response_format, include_body, messages, mail, ls, box, fault) ==
    IF Raises(<<>>, fault) THEN
        [log |-> <<MessagesListCall(fault.exc)>>, res |-> _handle_api_error(fault.exc),
         ls |-> ls, box |-> box]
    ELSE IF messages = <<>> THEN
        [log |-> <<Returning(MessagesListCall(NoExc), Listing(messages))>>,
         res |-> Str("No", "No messages found matching your search query.",
                     0, "", "", 0, <<>>),
         ls |-> ls, box |-> box]
    ELSE search_emails_fetched(response_format, include_body,
                               search_loop(messages, 1, mail,
                                           <<Returning(MessagesListCall(NoExc),
                                                       Listing(messages))>>,
                                           <<>>, fault),
                               ls, box)

search_emails(query, max_results, include_body, response_format, messages, mail, fault, refreshOk) ==
    /\ Len(messages) <= max_results \/ max_results < 1
    /\ tool(SearchEmailsInput(query, max_results, response_format),
            [NoReq EXCEPT !.op = "search_emails", !.query = query,
                          !.max_results = max_results,
                          !.include_body = include_body,
                          !.response_format = response_format],
            get_gmail_service(_gmail_service, tokenFile, builds, refreshOk),
            search_emails_body(response_format, include_body, messages, mail,
                               labels, msgLabels, fault))

\* the JSON object of get_email
email_json(msg, body) ==
    << Field("id", msg.id), Field("thread_id", msg.threadId),
       Field("from", _get_header_value(msg.payload.headers, From)),
       Field("to", _get_header_value(msg.payload.headers, To)),
       Field("cc", _get_header_value(msg.payload.headers, Cc)),
       Field("bcc", _get_header_value(msg.payload.headers, Bcc)),
       Field("subject", _get_header_value(msg.payload.headers, Subject)),
       Field("date", _get_header_value(msg.payload.headers, Date)),
       Field("labels", msg.labelIds), Field("snippet", msg.snippet),
       Field("body", body) >>

\* the Markdown document of get_email: the CC line only when there is a Cc
email_markdown(msg, body) ==
    << Field("ID", msg.id), Field("Thread ID", msg.threadId),
       Field("From", _get_header_value(msg.payload.headers, From)),
       Field("To", _get_header_value(msg.payload.headers, To)) >>
    \o (IF _get_header_value(msg.payload.headers, Cc) # <<>>
        THEN <<Field("CC", _get_header_value(msg.payload.headers, Cc))>> ELSE <<>>)
    \o << Field("Subject", _get_header_value(msg.payload.headers, Subject)),
          Field("Date", _get_header_value(msg.payload.headers, Date)),
          Field("Labels", join(<<",", " ">>, msg.labelIds)),
          Field("Snippet", msg.snippet), Field("Body", body) >>

\* get_email after its message is fetched, d the outcome of decoding its body
get_email_decoded(response_format, msg, d) ==
    IF d.exc # NoExc THEN _handle_api_error(d.exc)
    ELSE IF response_format = "json"
    THEN Doc(Str("{", "id, thread_id, from, to, cc, bcc, subject, date, labels, snippet, body",
                 0, "", "", 0, <<>>), <<email_json(msg, d.body)>>)
    ELSE Doc(Str("#", "Email Details", 0, "", "", 0, <<>>),
             <<email_markdown(msg, d.body)>>)

\* msg is what the remote holds under message_id
get_email_body(message_id, response_format, msg, ls, box, fault) ==
    IF Raises(<<>>, fault) THEN
        [log |-> <<MessagesGetCall(message_id, fault.exc)>>,
         res |-> _handle_api_error(fault.exc), ls |-> ls, box |-> box]
    ELSE
        [log |-> <<Returning(MessagesGetCall(message_id, NoExc), msg)>>,
         res |-> get_email_decoded(response_format, msg,
                                   _decode_message_body(msg.payload)),
         ls |-> ls, box |-> box]

get_email(message_id, response_format, msg, fault, refreshOk) ==
    tool(GetEmailInput(message_id, response_format),
         [NoReq EXCEPT !.op = "get_email", !.message_id = message_id,
                       !.response_format = response_format],
         get_gmail_service(_gmail_service, tokenFile, builds, refreshOk),
         get_email_body(strip(message_id), response_format, msg, labels, msgLabels,
                        fault))

send_email_body(ls, box, fault) ==
    IF Raises(<<>>, fault) THEN
        [log |-> <<Call("messages.send", <<>>, <<>>, <<>>, fault.exc)>>,
         res |-> _handle_api_error(fault.exc), ls |-> ls, box |-> box]
    ELSE
        [log |-> <<Call("messages.send", <<>>, <<>>, <<>>, NoExc)>>,
         res |-> Str(CheckMark, "Email sent successfully!", 0, "", "", 0, <<>>),
         ls |-> ls, box |-> box]

send_email(to, subject, body, fault, refreshOk) ==
    tool(SendEmailInput(to, subject, body),
         [NoReq EXCEPT !.op = "send_email", !.to = to, !.subject = subject,
                       !.body = body],
         get_gmail_service(_gmail_service, tokenFile, builds, refreshOk),
         send_email_body(labels, msgLabels, fault))

ThreadsGetCall(thread_id, e) == Call("threads.get", thread_id, <<>>, <<>>, e)

\* the send of a reply carries threadId in its body
ReplySendCall(thread_id, e) == Call("messages.send", thread_id, <<>>, <<>>, e)

\* raised by thread['messages'][0] on a thread without messages
IndexError == [type |-> "IndexError", status |-> 0, msg |-> "list index out of range"]

\* the subject of a reply with the prefix looked for as it is written
reply_subject_exact(subject) ==
    IF startswith(subject, <<"R", "e", ":">>) THEN subject
    ELSE <<"R", "e", ":", " ">> \o subject

\* the subject of a reply to a message with that subject
reply_subject(subject) ==
    IF startswith(lower(subject), <<"r", "e", ":">>) THEN subject
    ELSE <<"R", "e", ":", " ">> \o subject

\* the recipients of a reply with the Cc header set whatever reply_all says
reply_recipients_with_cc(headers, reply_all) ==
    [To |-> _get_header_value(headers, From),
     hasCc |-> _get_header_value(headers, Cc) # <<>>,
     Cc |-> _get_header_value(headers, Cc)]

\* the recipients of a reply to a message with those headers: whether the
\* reply has a Cc header at all, and the values of its To and Cc
reply_recipients(headers, reply_all) ==
    IF reply_all
    THEN [To |-> _get_header_value(headers, From),
          hasCc |-> _get_header_value(headers, Cc) # <<>>,
          Cc |-> _get_header_value(headers, Cc)]
    ELSE [To |-> _get_header_value(headers, From), hasCc |-> FALSE, Cc |-> <<>>]

\* the MIME message of a reply to the message with those headers
reply_message(headers, rcpt, subject) ==
    [kind |-> "mime", Subject |-> subject,
     InReplyTo |-> _get_header_value(headers, MessageID),
     References |-> _get_header_value(headers, MessageID),
     To |-> rcpt.To, hasCc |-> rcpt.hasCc, Cc |-> rcpt.Cc]

\* reply_to_email once the reply is composed: the send and the return
reply_to_email_composed(got, thread_id, message, ls, box, fault) ==
    IF Raises(<<got>>, fault) THEN
        [log |-> <<got, Sending(ReplySendCall(thread_id, fault.exc), message)>>,
         res |-> _handle_api_error(fault.exc), ls |-> ls, box |-> box]
    ELSE
        [log |-> <<got, Sending(ReplySendCall(thread_id, NoExc), message)>>,
         res |-> Doc(Str(CheckMark, "Reply sent successfully!", 0, "", "", 0, <<>>),
                     << <<Field("Thread ID", thread_id), Field("To", message.To),
                          Field("Subject", message.Subject)>> >>),
         ls |-> ls, box |-> box]

\* reply_to_email from the first message of the thread on
reply_to_email_original(got, thread_id, reply_all, headers, ls, box, fault) ==
    reply_to_email_composed(
        got, thread_id,
        reply_message(headers, reply_recipients(headers, reply_all),
                      reply_subject(_get_header_value(headers, Subject))),
        ls, box, fault)

\* thread is what the remote holds under thread_id
reply_to_email_body(thread_id, reply_all, thread, ls, box, fault) ==
    IF Raises(<<>>, fault) THEN
        [log |-> <<ThreadsGetCall(thread_id, fault.exc)>>,
         res |-> _handle_api_error(fault.exc), ls |-> ls, box |-> box]
    ELSE IF thread.messages = <<>> THEN
        [log |-> <<Returning(ThreadsGetCall(thread_id, NoExc), thread)>>,
         res |-> _handle_api_error(IndexError), ls |-> ls, box |-> box]
    ELSE reply_to_email_original(Returning(ThreadsGetCall(thread_id, NoExc), thread),
                                 thread_id, reply_all,
                                 thread.messages[1].payload.headers, ls, box, fault)

reply_to_email(thread_id, body, reply_all, thread, fault, refreshOk) ==
    tool(ReplyToEmailInput(thread_id, body),
         [NoReq EXCEPT !.op = "reply_to_email", !.thread_id = thread_id,
                       !.body = body, !.reply_all = reply_all],
         get_gmail_service(_gmail_service, tokenFile, builds, refreshOk),
         reply_to_email_body(strip(thread_id), reply_all, thread, labels, msgLabels,
                             fault))

(***************************************************************************)
(* The environment: time passes, and the authentication script is run.     *)
(***************************************************************************)
\* the access token's lifetime ends: the persisted credential and the one
\* the built service holds are the same credential
CredentialExpires ==
    /\ \/ tokenFile.exists /\ ~tokenFile.expired
       \/ _gmail_service # None /\ ~_gmail_service.expired
    /\ tokenFile' = IF tokenFile.exists THEN [tokenFile EXCEPT !.expired = TRUE]
                    ELSE tokenFile
    /\ _gmail_service' = IF _gmail_service # None
                         THEN [_gmail_service EXCEPT !.expired = TRUE]
                         ELSE _gmail_service
    /\ UNCHANGED <<builds, labels, msgLabels, req, calls, result, session>>

\* authenticate() of authenticate_gmail.py, with the client-secret file in
\* place: a valid token is left alone, an expired one with a refresh token
\* is refreshed, anything else goes through the interactive flow
authenticate(refreshOk) ==
    /\ ~(tokenFile.exists /\ ~tokenFile.expired)
    /\ ~(tokenFile.exists /\ tokenFile.expired /\ tokenFile.refresh_token /\ ~refreshOk)
    /\ tokenFile' = Token(FALSE, TRUE)
    /\ UNCHANGED <<_gmail_service, builds, labels, msgLabels, req, calls, result,
                   session>>

(***************************************************************************)
(* The initial state: a fresh process, a mailbox with both messages in the *)
(* inbox, and whatever token file the operator did or did not provide.     *)
(***************************************************************************)
Tokens == {NoToken} \cup {Token(e, rt) : e \in BOOLEAN, rt \in BOOLEAN}

Init ==
    /\ tokenFile \in Tokens
    /\ _gmail_service = None
    /\ builds = 0
    /\ labels = SystemLabels
    /\ msgLabels = [m \in MsgIds |-> {INBOX}]
    /\ req = NoReq
    /\ calls = <<>>
    /\ result = NoResult
    /\ session = [how |-> "notcalled", exc |-> NoExc]

(***************************************************************************)
(* The inputs the callers draw from.                                       *)
(***************************************************************************)
\* creds.refresh is called only on the path that builds the service
RefreshOutcomes ==
    IF _gmail_service = None /\ tokenFile.exists /\ tokenFile.expired
       /\ tokenFile.refresh_token
    THEN BOOLEAN ELSE {TRUE}

q == <<"q">>

\* texts for a required str field: empty, blank, and a proper one
Texts == {<<>>, <<" ">>, q}

\* lists of message ids up to n long, repetitions allowed
RECURSIVE IdLists(_)
IdLists(n) ==
    IF n = 0 THEN {<<>>}
    ELSE LET shorter == IdLists(n - 1) IN
         shorter \cup {Append(l, m) : l \in {x \in shorter : Len(x) = n - 1},
                                      m \in MsgIds}

Formats == ResponseFormat \cup {"xml"}

\* a text of n characters
RECURSIVE Long(_)
Long(n) ==
    IF n = 0 THEN <<>>
    ELSE IF n % 2 = 0 THEN Long(n \div 2) \o Long(n \div 2)
    ELSE Append(Long(n - 1), "b")

a == <<"a">>

b == <<"b">>

\* a message as the mailbox holds it under id: plain headers, its text in
\* the direct body
PlainMessage(id) ==
    Message(id, q,
            <<Header(From, a), Header(To, b), Header(Subject, q), Header(MessageID, id)>>,
            Single(Data(q)), q, <<INBOX>>)

Mail == [id \in MsgIds |-> PlainMessage(id)]

PlainThread == Thread(<<PlainMessage(m1)>>)

\* Each handler is called with a valid base call, with each parameter varied
\* from the base, and with the base under every remote answer and fault.
SearchBase ==
    [query |-> q, max_results |-> 20, include_body |-> FALSE,
     response_format |-> "markdown"]

SearchParams ==
    {SearchBase} \cup {[SearchBase EXCEPT !.query = t] : t \in Texts}
        \cup {[SearchBase EXCEPT !.max_results = n] : n \in {0, 1, 100, 101}}
        \cup {[SearchBase EXCEPT !.include_body = TRUE]}
        \cup {[SearchBase EXCEPT !.response_format = f] : f \in Formats}

SearchCalls ==
    {[p |-> p, ms |-> <<m1>>, f |-> NoFault] : p \in SearchParams}
        \cup {[p |-> SearchBase, ms |-> ms, f |-> f] :
                 ms \in IdLists(MaxFound), f \in Faults(MaxFound + 1)}

GetBase == [message_id |-> m1, response_format |-> "markdown"]

GetCalls ==
    {[p |-> [GetBase EXCEPT !.message_id = t], f |-> NoFault] : t \in {<<>>, <<" ">>}}
        \cup {[p |-> [GetBase EXCEPT !.response_format = fmt], f |-> NoFault] :
                 fmt \in Formats}
        \cup {[p |-> GetBase, f |-> f] : f \in Faults(1)}

SendBase == [to |-> <<a>>, subject |-> q, body |-> q]

SendCalls ==
    {[p |-> [SendBase EXCEPT !.to = <<>>], f |-> NoFault]}
        \cup {[p |-> [SendBase EXCEPT !.subject = t], f |-> NoFault] : t \in Texts}
        \cup {[p |-> [SendBase EXCEPT !.body = t], f |-> NoFault] : t \in Texts}
        \cup {[p |-> SendBase, f |-> f] : f \in Faults(1)}

ReplyBase == [thread_id |-> q, body |-> q, reply_all |-> FALSE]

ReplyCalls ==
    {[p |-> [ReplyBase EXCEPT !.thread_id = t], f |-> NoFault] : t \in Texts}
        \cup {[p |-> [ReplyBase EXCEPT !.body = t], f |-> NoFault] : t \in Texts}
        \cup {[p |-> [ReplyBase EXCEPT !.reply_all = TRUE], f |-> NoFault]}
        \cup {[p |-> ReplyBase, f |-> f] : f \in Faults(2)}

ModifyBase == [message_ids |-> <<m1>>, add_labels |-> <<>>, remove_labels |-> <<INBOX>>]

ModifyCalls ==
    {[p |-> [ModifyBase EXCEPT !.message_ids = <<>>], f |-> NoFault],
     [p |-> [ModifyBase EXCEPT !.remove_labels = <<>>], f |-> NoFault],
     [p |-> [ModifyBase EXCEPT !.add_labels = <<INBOX>>, !.remove_labels = <<>>],
      f |-> NoFault],
     [p |-> [ModifyBase EXCEPT !.add_labels = <<q>>], f |-> NoFault]}
        \cup {[p |-> ModifyBase, f |-> f] : f \in Faults(2)}

BatchCalls ==
    {[ids |-> <<>>, f |-> NoFault]} \cup {[ids |-> <<m1>>, f |-> f] : f \in Faults(1)}

ListCalls ==
    {[fmt |-> fmt, f |-> NoFault] : fmt \in Formats}
        \cup {[fmt |-> "markdown", f |-> f] : f \in Faults(1)}

CreateBase ==
    [name |-> a, label_list_visibility |-> "labelShow",
     message_list_visibility |-> "show"]

CreateCalls ==
    {[p |-> [CreateBase EXCEPT !.name = n], f |-> NoFault] :
        n \in {<<>>, <<" ">>, <<" ", "a">>, lower(INBOX), Long(101)}}
        \cup {[p |-> [CreateBase EXCEPT !.label_list_visibility = v], f |-> NoFault] :
                 v \in {"labelShowIfUnread", "labelHide", "bogus"}}
        \cup {[p |-> [CreateBase EXCEPT !.message_list_visibility = v], f |-> NoFault] :
                 v \in {"hide", "bogus"}}
        \cup {[p |-> CreateBase, f |-> f] : f \in Faults(2)}

(***************************************************************************)
(* The gateway: every handler, every input constraint, every error of a    *)
(* remote call, and the session's life.                                    *)
(***************************************************************************)
Next ==
    \/ \E c \in SearchCalls, ok \in RefreshOutcomes :
          search_emails(c.p.query, c.p.max_results, c.p.include_body,
                        c.p.response_format, c.ms, Mail, c.f, ok)
    \/ \E c \in GetCalls, ok \in RefreshOutcomes :
          get_email(c.p.message_id, c.p.response_format, Mail[m1], c.f, ok)
    \/ \E c \in SendCalls, ok \in RefreshOutcomes :
          send_email(c.p.to, c.p.subject, c.p.body, c.f, ok)
    \/ \E c \in ReplyCalls, ok \in RefreshOutcomes :
          reply_to_email(c.p.thread_id, c.p.body, c.p.reply_all, PlainThread, c.f, ok)
    \/ \E c \in ModifyCalls, ok \in RefreshOutcomes :
          modify_labels(c.p.message_ids, c.p.add_labels, c.p.remove_labels, c.f, ok)
    \/ \E c \in BatchCalls, ok \in RefreshOutcomes : archive_emails(c.ids, c.f, ok)
    \/ \E c \in BatchCalls, ok \in RefreshOutcomes : delete_emails(c.ids, c.f, ok)
    \/ \E c \in ListCalls, ok \in RefreshOutcomes : list_labels(c.fmt, c.f, ok)
    \/ \E c \in CreateCalls, ok \in RefreshOutcomes :
          create_label(c.p.name, c.p.label_list_visibility,
                       c.p.message_list_visibility, c.f, ok)
    \/ CredentialExpires
    \/ \E ok \in BOOLEAN : authenticate(ok)

Spec == Init /\ [][Next]_vars

(***************************************************************************)
(* The batch handlers on their own: a token in place, message lists of     *)
(* every length up to MaxIds, and a fault at every position.               *)
(***************************************************************************)
InitReady == Init /\ tokenFile = Token(FALSE, TRUE)

BatchErrors == {HttpError(404), TimeoutError}

BatchFaults(n) ==
    {NoFault} \cup {[at |-> k, exc |-> e] : k \in 1..n, e \in BatchErrors}

NextBatch ==
    \/ \E ids \in IdLists(MaxIds) : \E f \in BatchFaults(Len(ids)) :
          archive_emails(ids, f, TRUE)
    \/ \E ids \in IdLists(MaxIds) : \E f \in BatchFaults(Len(ids)) :
          delete_emails(ids, f, TRUE)
    \/ \E ids \in IdLists(MaxIds) : \E f \in BatchFaults(Len(ids) + 1) :
          modify_labels(ids, <<INBOX>>, <<TRASH>>, f, TRUE)

SpecBatch == InitReady /\ [][NextBatch]_vars

(***************************************************************************)
(* The label handlers on their own: labels are created under names that    *)
(* differ in case or look like identifiers, and modify_labels is asked for *)
(* every name and identifier, known or not, at every position.             *)
(***************************************************************************)
L1 == <<"L", "1">>
L2 == <<"L", "2">>
L3 == <<"L", "3">>
z == <<"z">>

LabelNames == {a, <<"A">>, L2, lower(INBOX)}

LabelRefs == {INBOX, a, L1, L2, L3, z}

\* lists of up to two labels; a list of two holds the unknown label z
LabelLists ==
    {<<>>} \cup {<<x>> : x \in LabelRefs}
           \cup {<<x, z>> : x \in LabelRefs} \cup {<<z, x>> : x \in LabelRefs}

LabelCalls ==
    {[add |-> l, remove |-> <<>>, f |-> NoFault] : l \in LabelLists}
        \cup {[add |-> <<>>, remove |-> l, f |-> NoFault] : l \in LabelLists}
        \cup {[add |-> <<a>>, remove |-> l, f |-> NoFault] : l \in {<<z>>, <<INBOX>>}}
        \cup {[add |-> <<INBOX>>, remove |-> <<>>, f |-> f] : f \in BatchFaults(2)}

NextLabels ==
    \/ \E c \in LabelCalls : modify_labels(<<m1>>, c.add, c.remove, c.f, TRUE)
    \/ \E n \in LabelNames, f \in BatchFaults(2) :
          create_label(n, "labelShow", "show", f, TRUE)

SpecLabels == InitReady /\ [][NextLabels]_vars

(***************************************************************************)
(* The reading handlers on their own: messages whose headers repeat, differ *)
(* in case or are missing, searches that return up to MaxListed ids with a *)
(* fault at every position, and the label list in both formats.            *)
(***************************************************************************)
MaxListed == 3       \* most message ids a search of this specification returns

u == <<"u">>
w == <<"w">>

HeaderLists ==
    { <<>>,
      <<Header(From, a), Header(To, b), Header(Subject, q), Header(Date, w)>>,
      <<Header(From, a), Header(From, b)>>,
      <<Header(<<"f", "r", "o", "m">>, a), Header(<<"T", "O">>, b),
        Header(<<"C", "C">>, u)>>,
      <<Header(To, b), Header(Cc, u), Header(Bcc, w), Header(From, a)>>,
      <<Header(Bcc, w)>>,
      <<Header(Subject, <<>>), Header(Subject, q)>>,
      <<Header(<<"X", "-", "T", "o">>, a), Header(<<"t", "o">>, b), Header(To, u)>> }

ContentMessages ==
    {Message(m1, q, h, Single(Data(q)), q, <<INBOX>>) : h \in HeaderLists}
        \cup {Message(m1, q, <<Header(From, a)>>, Single(Data(q)), q, l) :
                 l \in {<<>>, <<INBOX, TRASH>>}}
        \cup {Message(m1, q, <<Header(From, a)>>, p, <<>>, <<INBOX>>) :
                 p \in {Single(Data(Long(BodyPreview))), Single(Data(Long(BodyPreview + 1))),
                         Single(NoData),
                         Multipart(<<Part("text/html", Data(b)),
                                     Part("text/plain", Data(a))>>)}}

ContentSearches ==
    {[ids |-> ids, msg |-> PlainMessage(m1), fmt |-> "markdown", ib |-> FALSE, f |-> f] :
        ids \in IdLists(MaxListed), f \in BatchFaults(MaxListed + 1)}
        \cup {[ids |-> ids, msg |-> msg, fmt |-> fmt, ib |-> ib, f |-> NoFault] :
                 ids \in {<<m1>>, <<m2, m1>>}, msg \in ContentMessages,
                 fmt \in ResponseFormat, ib \in BOOLEAN}

NextContent ==
    \/ \E msg \in ContentMessages, fmt \in ResponseFormat, f \in BatchFaults(1) :
          get_email(m1, fmt, msg, f, TRUE)
    \/ \E s \in ContentSearches :
          /\ s.f.at <= Len(s.ids) + 1
          /\ search_emails(q, 20, s.ib, s.fmt, s.ids,
                           [id \in MsgIds |-> IF id = m1 THEN s.msg ELSE PlainMessage(id)],
                           s.f, TRUE)
    \/ \E fmt \in ResponseFormat, f \in BatchFaults(1) : list_labels(fmt, f, TRUE)
    \/ \E n \in LabelNames : create_label(n, "labelShow", "show", NoFault, TRUE)

SpecContent == InitReady /\ [][NextContent]_vars

(***************************************************************************)
(* Decoding on its own: get_email and search_emails over payloads of up to *)
(* MaxParts parts of every kind, with and without data, well-formed or not.*)
(***************************************************************************)
MaxParts == 3        \* most parts of a multipart payload

\* the part at position i of each kind; its text tells kind and position
PartsAt(i) ==
    { Part("text/plain", Data(<<"p", Digits[i]>>)),
      Part("text/plain", NoData),
      Part("text/plain", Malformed(UnicodeDecodeError)),
      Part("text/html", Data(<<"h", Digits[i]>>)),
      Part("application/pdf", Data(<<"o", Digits[i]>>)) }

RECURSIVE PartLists(_)
PartLists(n) ==
    IF n = 0 THEN {<<>>}
    ELSE LET shorter == PartLists(n - 1) IN
         shorter \cup {Append(l, p) : l \in {x \in shorter : Len(x) = n - 1},
                                      p \in PartsAt(n)}

\* parts beyond the kinds of PartsAt: html without data, html that decodes
\* to nothing, and html that does not decode
OddPartLists ==
    { <<Part("text/html", NoData), Part("text/html", Data(<<"h", "2">>))>>,
      <<Part("text/html", NoData), Part("text/plain", NoData)>>,
      <<Part("text/html", Data(<<>>)), Part("text/html", Data(<<"h", "2">>))>>,
      <<Part("text/html", Data(<<>>)), Part("text/plain", Data(<<>>)),
        Part("text/html", Data(<<"h", "3">>))>>,
      <<Part("text/html", Malformed(BinasciiError)), Part("text/plain", Data(<<"p", "2">>))>>,
      <<Part("text/html", Data(<<"h", "1">>)), Part("text/html", Malformed(BinasciiError))>>,
      <<Part("text/html", Data(<<"h", "1">>)), Part("text/plain", Malformed(BinasciiError))>> }

Payloads ==
    {Multipart(l) : l \in PartLists(MaxParts) \cup OddPartLists}
        \cup {Single(x) : x \in {Data(q), Data(<<>>), NoData, Malformed(UnicodeDecodeError),
                                  Malformed(BinasciiError)}}
        \cup {[hasParts |-> FALSE, parts |-> <<>>, hasBody |-> FALSE, body |-> NoData],
              [hasParts |-> TRUE, parts |-> <<>>, hasBody |-> TRUE, body |-> Data(q)]}

DecodeMessage(p) == Message(m1, q, <<Header(From, a)>>, p, q, <<INBOX>>)

NextDecode ==
    \/ \E p \in Payloads : get_email(m1, "json", DecodeMessage(p), NoFault, TRUE)
    \/ \E p \in {x \in Payloads : Len(x.parts) <= 1}, fmt \in ResponseFormat,
          f \in BatchFaults(1) :
          get_email(m1, fmt, DecodeMessage(p), f, TRUE)
    \/ \E p \in {x \in Payloads : Len(x.parts) <= 1}, fmt \in ResponseFormat,
          ib \in BOOLEAN, ids \in {<<m1>>, <<m2, m1>>} :
          search_emails(q, 20, ib, fmt, ids,
                        [id \in MsgIds |-> IF id = m1 THEN DecodeMessage(p)
                                           ELSE PlainMessage(id)],
                        NoFault, TRUE)

SpecDecode == InitReady /\ [][NextDecode]_vars

(***************************************************************************)
(* Replying on its own: threads whose first message has every kind of      *)
(* subject and of sender and Cc headers, and whose later messages differ.  *)
(***************************************************************************)
Re == <<"R", "e", ":">>

Subjects ==
    { <<>>, q, <<"R">>, <<"R", "e">>, Re, <<"r", "e", ":">>, <<"R", "E", ":">>,
      <<"r", "E", ":", " ", "q">>, Re \o <<" ">> \o q, <<" ">> \o Re,
      q \o Re, <<"R", "e", " ", ":">> }

ReplyHeaderLists ==
    {<<Header(From, a), Header(Subject, x), Header(MessageID, w)>> : x \in Subjects}
        \cup { <<>>,
               <<Header(Subject, q)>>,
               <<Header(From, a), Header(Cc, u)>>,
               <<Header(<<"c", "c">>, u), Header(<<"F", "R", "O", "M">>, a),
                 Header(From, b), Header(Cc, w)>>,
               <<Header(From, a), Header(Cc, <<>>), Header(Cc, u)>>,
               <<Header(Cc, u), Header(To, b)>> }

\* a later message of a thread: other sender, other Cc, other subject
LaterMessage ==
    Message(m2, q, <<Header(From, z), Header(Cc, z), Header(Subject, z)>>,
            Single(Data(q)), q, <<INBOX>>)

Threads ==
    {Thread(<<>>)}
        \cup {Thread(<<Message(m1, q, h, Single(Data(q)), q, <<INBOX>>)>>) :
                 h \in ReplyHeaderLists}
        \cup {Thread(<<Message(m1, q, h, Single(Data(q)), q, <<INBOX>>), LaterMessage>>) :
                 h \in ReplyHeaderLists}

NextReply ==
    \/ \E t \in Threads, all \in BOOLEAN :
          reply_to_email(q, q, all, t, NoFault, TRUE)
    \/ \E all \in BOOLEAN, f \in BatchFaults(2) :
          reply_to_email(q, q, all, PlainThread, f, TRUE)

SpecReply == InitReady /\ [][NextReply]_vars

(***************************************************************************)
(* Properties.  A state shows the last invocation (req), the remote calls  *)
(* it issued (calls) and what it returned (result).                        *)
(***************************************************************************)
\* the last invocation entered its handler and obtained the service
Served == session.how \in {"built", "cached"}

\* the remote calls of the last invocation that are message modifications
ModifyCalls_(log) == {i \in 1..Len(log) : log[i].api = "messages.modify"}

\* the names and identifiers of the account's labels
KnownLabels == {labels[i].name : i \in 1..Len(labels)}
                   \cup {labels[i].id : i \in 1..Len(labels)}

\* the labels the last modify_labels was asked for, add-labels first
Asked == req.add_labels \o req.remove_labels

UnknownAsked == {i \in 1..Len(Asked) : Asked[i] \notin KnownLabels}

\* the last invocation was a modify_labels that got the account's label list
ModifyListed ==
    /\ req.op = "modify_labels"
    /\ Served
    /\ calls # <<>>
    /\ calls[1].exc = NoExc

\* C1: when modify_labels has the account's label list and any requested
\* name (add or remove, at any position) is no label name or identifier of
\* the account, it returns the error naming the first such label and issues
\* no message-modify call, whatever the message ids.
C1_UnknownLabelAborts ==
    (ModifyListed /\ UnknownAsked # {}) =>
        /\ result = LabelNotFound(Asked[CHOOSE i \in UnknownAsked :
                                            \A j \in UnknownAsked : i <= j])
        /\ ModifyCalls_(calls) = {}
        /\ calls = <<LabelsListCall(NoExc)>>

\* a modify_labels whose add-label is known and whose remove-labels name an
\* unknown label in second place was refused without touching a message
C1_Witness ==
    /\ ModifyListed
    /\ req.add_labels = <<a>>
    /\ a \in KnownLabels
    /\ req.remove_labels = <<z>>
    /\ result = LabelNotFound(z)
    /\ ModifyCalls_(calls) = {}

\* the labels as create_label found them: a step of create_label that
\* created a label appended it
IsCreateStep == req'.op = "create_label" /\ session'.how \in {"built", "cached"}

CaseDuplicates(ls, name) ==
    {i \in 1..Len(ls) : lower(ls[i].name) = lower(name)}

CreateIssued(log) == \E i \in 1..Len(log) : log[i].api = "labels.create"

\* C4: a create_label whose name equals an existing label's name up to
\* letter case returns the duplicate error, issues no create call and leaves
\* the account's labels as they were; a create call is issued only when no
\* existing label matches case-insensitively.
C4_DuplicateRejected ==
    [][(IsCreateStep /\ calls' # <<>> /\ calls'[1].exc = NoExc) =>
          /\ CaseDuplicates(labels, strip(req'.name)) # {} =>
                /\ result'.head = "Error:"
                /\ result'.text = "Label already exists (ID)"
                /\ result'.label \in
                      {labels[i].id : i \in CaseDuplicates(labels, strip(req'.name))}
                /\ ~CreateIssued(calls')
                /\ labels' = labels
          /\ CreateIssued(calls') => CaseDuplicates(labels, strip(req'.name)) = {}
      ]_vars

\* a label named "a" exists and a create_label of "A" was refused with its
\* identifier, after the list call alone
C4_Witness ==
    /\ req.op = "create_label"
    /\ req.name = <<"A">>
    /\ \E i \in 1..Len(labels) : labels[i].name = a /\ result = DuplicateLabel(labels[i].id)
    /\ calls = <<LabelsListCall(NoExc)>>
    /\ \A i \in 1..Len(labels) : labels[i].name # <<"A">>

\* the last invocation was a modify_labels asked to add the one label x, and
\* it reached its first modify call
AddedOne(x) ==
    /\ ModifyListed
    /\ req.add_labels = <<x>>
    /\ req.remove_labels = <<>>
    /\ Len(calls) >= 2

OtherIds(i) == {labels[j].id : j \in (1..Len(labels)) \ {i}}

\* C10 as claimed: for every label L of the account, asking for L by its
\* identifier and asking for L by its display name both resolve to L's
\* identifier, also when a display name equals another label's identifier.
C10_Claimed ==
    \A i \in 1..Len(labels) :
        /\ AddedOne(labels[i].id) => calls[2].add = <<labels[i].id>>
        /\ AddedOne(labels[i].name) => calls[2].add = <<labels[i].id>>

\* C10 amended: asking for L by its identifier resolves to L's identifier;
\* asking for L by its display name resolves to L's identifier unless that
\* name is the identifier of another label, and then it resolves to that
\* other label's identifier.
C10_IdentifierWins ==
    \A i \in 1..Len(labels) :
        /\ AddedOne(labels[i].id) => calls[2].add = <<labels[i].id>>
        /\ AddedOne(labels[i].name) =>
              calls[2].add = IF labels[i].name \in OtherIds(i)
                             THEN <<labels[i].name>> ELSE <<labels[i].id>>

\* the account holds a label named like another label's identifier, and a
\* third name was resolved to its own label's identifier
C10_Witness ==
    /\ \E i, j \in 1..Len(labels) : i # j /\ labels[i].name = labels[j].id
    /\ \E i \in 1..Len(labels) :
          /\ labels[i].name # labels[i].id
          /\ labels[i].name \notin OtherIds(i)
          /\ AddedOne(labels[i].name)
          /\ calls[2].add = <<labels[i].id>>

BatchOps == {"archive_emails", "delete_emails", "modify_labels"}

\* the per-message calls of a batch invocation: all of them, but for
\* modify_labels, whose first call lists the labels
ItemCalls(op, log) == IF op = "modify_labels" /\ log # <<>> THEN Tail(log) ELSE log

ItemApi(op) == IF op = "delete_emails" THEN "messages.trash" ELSE "messages.modify"

\* the mailbox after the first k of the calls items took effect
RECURSIVE AfterCalls(_, _, _)
AfterCalls(box, items, k) ==
    IF k = 0 THEN box
    ELSE LET before == AfterCalls(box, items, k - 1)
             c == items[k]
         IN  IF c.api = "messages.trash" THEN RemoteTrash(before, c.id)
             ELSE RemoteModify(before, c.id, c.add, c.remove)

C2_Sequential(ids, items, n) ==
    /\ n <= Len(ids)
    /\ \A j \in 1..n : items[j].id = ids[j] /\ items[j].api = ItemApi(req'.op)
    /\ \A j \in 1..(n - 1) : items[j].exc = NoExc
    /\ IF n > 0 /\ items[n].exc # NoExc
       THEN msgLabels' = AfterCalls(msgLabels, items, n - 1)
       ELSE /\ n = Len(ids) \/ (req'.op = "modify_labels" /\ n = 0)
            /\ msgLabels' = AfterCalls(msgLabels, items, n)

\* C2: modify_labels, archive_emails and delete_emails issue their
\* per-message calls one at a time in the order of message_ids; when the call
\* for item k raises, the mailbox is the one the first k-1 calls left (nothing
\* is rolled back) and no call is issued for a later item.
C2_StopsAtFirstFailure ==
    [][(req'.op \in BatchOps /\ session'.how \in {"built", "cached"}) =>
          C2_Sequential(req'.message_ids, ItemCalls(req'.op, calls'),
                        Len(ItemCalls(req'.op, calls')))]_vars

\* a delete of three messages whose second call raised: the first message is
\* in the trash, the second is not, and there is no third call
C2_Witness ==
    /\ req.op = "delete_emails"
    /\ req.message_ids = <<m1, m2, m1>>
    /\ Len(calls) = 2
    /\ calls[1].exc = NoExc
    /\ calls[2].exc # NoExc
    /\ TRASH \in msgLabels[m1]
    /\ TRASH \notin msgLabels[m2]

\* the last invocation was an archive_emails that issued calls
Archived == req.op = "archive_emails" /\ Served /\ calls # <<>>

NotFoundText == "Resource not found. Please check the ID is correct."

\* C3 as claimed: when the call for item k of an archive raises, the
\* response reports the k-1 messages archived before it.
C3_Claimed ==
    (Archived /\ calls[Len(calls)].exc # NoExc) => result.count = Len(calls) - 1

\* C3 amended: when the call for item k of an archive raises, the response
\* is the classified error alone (for a 404, the resource-not-found string)
\* and carries no count, although the k-1 messages before it are archived;
\* a count is reported only when every call returned, and it is then the
\* number of message ids.
C3_ErrorOnly ==
    Archived =>
        IF calls[Len(calls)].exc # NoExc
        THEN /\ result.head = "Error:"
             /\ result.count = 0
             /\ calls[Len(calls)].exc = HttpError(404) => result.text = NotFoundText
             /\ \A j \in 1..(Len(calls) - 1) : INBOX \notin msgLabels[req.message_ids[j]]
        ELSE /\ result.head = CheckMark
             /\ result.count = Len(req.message_ids)
             /\ Len(calls) = Len(req.message_ids)

\* an archive of three messages whose second call raised a 404: the first
\* message is archived and the response is the not-found error
C3_Witness ==
    /\ Archived
    /\ req.message_ids = <<m1, m2, m1>>
    /\ Len(calls) = 2
    /\ calls[2].exc = HttpError(404)
    /\ INBOX \notin msgLabels[m1]
    /\ INBOX \in msgLabels[m2]
    /\ result.text = NotFoundText

\* what the last invocation's handler caught: the exception of
\* get_gmail_service, or of its last remote call
Raised ==
    IF session.how = "raised" THEN session.exc
    ELSE IF session.how # "notcalled" /\ calls # <<>> THEN calls[Len(calls)].exc
    ELSE NoExc

\* the six classes, by what each surfaces
IsNotFound(r) == r.head = "Error:" /\ r.text = NotFoundText

IsPermissionDenied(r) ==
    r.head = "Error:" /\ r.text = "Permission denied. Check your Gmail API permissions."

IsRateLimited(r) ==
    r.head = "Error:"
    /\ r.text = "Rate limit exceeded. Please wait before making more requests."

IsInvalidRequest(r) == r.head = "Error:" /\ r.text = "Invalid request."

\* the missing-file message verbatim
IsCredentialMissing(r) == r.text = FileNotFoundError.msg

\* the failure's kind name and message
IsUnknown(r) ==
    r.head = "Error:" /\ r.text = "type(e).__name__: str(e)" /\ r.typeName # ""

\* the seventh form: the status code of the remote error and nothing else
IsApiStatus(r) ==
    r.head = "Error:" /\ r.text = "Gmail API error (status)" /\ r.typeName = ""

SixClasses(r) ==
    {c \in {"NotFound", "PermissionDenied", "RateLimited", "InvalidRequest",
            "CredentialMissing", "Unknown"} :
        \/ c = "NotFound" /\ IsNotFound(r)
        \/ c = "PermissionDenied" /\ IsPermissionDenied(r)
        \/ c = "RateLimited" /\ IsRateLimited(r)
        \/ c = "InvalidRequest" /\ IsInvalidRequest(r)
        \/ c = "CredentialMissing" /\ IsCredentialMissing(r)
        \/ c = "Unknown" /\ IsUnknown(r)}

\* C5 as claimed: whatever a handler catches is mapped to exactly one of
\* NotFound, PermissionDenied, RateLimited, InvalidRequest, CredentialMissing
\* and Unknown.
C5_Claimed == Raised # NoExc => Cardinality(SixClasses(result)) = 1

\* C5 amended: whatever a handler catches is returned as a string of exactly
\* one of seven forms: the six classes, and for a remote error whose status
\* is none of 400, 403, 404, 429 a form of its own that gives the status code
\* and neither the failure's kind name nor its message.
C5_SevenForms ==
    Raised # NoExc =>
        /\ Cardinality(SixClasses(result)) + (IF IsApiStatus(result) THEN 1 ELSE 0) = 1
        /\ IsNotFound(result) <=> Raised = HttpError(404)
        /\ IsPermissionDenied(result) <=> Raised = HttpError(403)
        /\ IsRateLimited(result) <=> Raised = HttpError(429)
        /\ IsInvalidRequest(result) <=> Raised = HttpError(400)
        /\ IsApiStatus(result) <=>
              (Raised.type = "HttpError" /\ Raised.status \notin {400, 403, 404, 429})
        /\ IsApiStatus(result) => result.status = Raised.status
        /\ IsCredentialMissing(result) <=> Raised = FileNotFoundError
        /\ IsUnknown(result) <=> Raised.type \notin {"HttpError", "FileNotFoundError"}
        /\ IsUnknown(result) => result.typeName = Raised.type /\ result.msg = Raised.msg

\* a remote call raised a 500 and the handler returned the status form
C5_Witness ==
    /\ Raised = HttpError(500)
    /\ IsApiStatus(result)
    /\ result.status = 500
    /\ SixClasses(result) = {}

\* the paths on which an invocation fails: something was raised, a requested
\* label is unknown, no label was requested, or the new label is a duplicate
FailurePath ==
    \/ Raised # NoExc
    \/ ModifyListed /\ (UnknownAsked # {} \/ Asked = <<>>)
    \/ req.op = "create_label" /\ Served /\ calls = <<LabelsListCall(NoExc)>>

\* C6: every invocation that enters its handler returns one string, and that
\* string begins with the error prefix exactly when the invocation failed.
C6_Claimed ==
    (req.op # "none" /\ session.how # "notcalled") =>
        /\ result.head # ""
        /\ FailurePath <=> result.head = "Error:"

LabelListVisibility == {"labelShow", "labelShowIfUnread", "labelHide"}

MessageListVisibility == {"show", "hide"}

\* the inputs the constraints rule out
InvalidInput ==
    \/ req.op = "search_emails"
          /\ (req.query = <<>> \/ req.max_results < 1 \/ req.max_results > 100)
    \/ req.op = "get_email" /\ req.message_id = <<>>
    \/ req.op = "send_email"
          /\ (req.to = <<>> \/ req.subject = <<>> \/ req.body = <<>>)
    \/ req.op = "reply_to_email" /\ (req.thread_id = <<>> \/ req.body = <<>>)
    \/ req.op \in BatchOps /\ req.message_ids = <<>>
    \/ req.op = "modify_labels" /\ req.add_labels = <<>> /\ req.remove_labels = <<>>
    \/ req.op = "create_label"
          /\ \/ Len(req.name) < 1
             \/ Len(req.name) > 100
             \/ req.label_list_visibility \notin LabelListVisibility
             \/ req.message_list_visibility \notin MessageListVisibility

\* C7: an invocation whose input violates a constraint issues no remote call.
C7_Claimed == InvalidInput => calls = <<>>

\* a step that is no step of the environment: the environment changes the
\* token file and the credential's expiry, and nothing else
Invoked == <<req, calls, result, session, labels, msgLabels, builds>>'
               # <<req, calls, result, session, labels, msgLabels, builds>>

\* C8: the service is built at most once; once it is built, every later
\* invocation gets that same service from the global, without loading the
\* credential or building again.
C8_BuiltOnce ==
    [][/\ builds' <= 1
       /\ _gmail_service # None =>
             /\ _gmail_service' # None
             /\ _gmail_service'.id = _gmail_service.id
             /\ builds' = builds
             /\ Invoked => session'.how \in {"cached", "notcalled"}
             /\ Invoked => tokenFile' = tokenFile
       /\ (Invoked /\ session'.how = "built") =>
             /\ _gmail_service = None
             /\ _gmail_service' # None
             /\ _gmail_service'.id = builds'
      ]_vars

\* an invocation was served from the global after the credential of the one
\* service ever built had expired
C8_Witness ==
    /\ session.how = "cached"
    /\ builds = 1
    /\ _gmail_service.id = 1
    /\ _gmail_service.expired
    /\ calls # <<>>

\* C9: whenever get_gmail_service returns the service while the persisted
\* credential is expired, the credential has been refreshed and the refreshed
\* form persisted by the time it returns.
C9_Claimed ==
    [][(Invoked /\ session'.how \in {"built", "cached"}
            /\ tokenFile.exists /\ tokenFile.expired) =>
          /\ ~tokenFile'.expired
          /\ ~_gmail_service'.expired]_vars

\* the last invocation returned a document in the requested format
Rendered == Served /\ result.head \in {"{", "#"}

\* the resources the get calls of the last invocation returned, in order
RECURSIVE Fetched(_)
Fetched(log) ==
    IF log = <<>> THEN <<>>
    ELSE IF Head(log).api = "messages.get" /\ Head(log).exc = NoExc
    THEN <<Head(log).ret>> \o Fetched(Tail(log))
    ELSE Fetched(Tail(log))

\* the name a field of the human-readable form has in the structured form
JsonName(k) ==
    CASE k = "ID" -> "id" [] k = "Thread ID" -> "thread_id" [] k = "From" -> "from"
      [] k = "To" -> "to" [] k = "CC" -> "cc" [] k = "Subject" -> "subject"
      [] k = "Date" -> "date" [] k = "Labels" -> "labels" [] k = "Snippet" -> "snippet"
      [] k = "Body" -> "body" [] k = "##" -> "type" [] OTHER -> k

\* the value of a field, whatever its shape: a list as its joined elements,
\* a label type as the heading of its group
Shapeless(f) ==
    CASE f.k = "labels" -> join(<<",", " ">>, f.v)
      [] f.k = "type" -> (IF f.v = "system" THEN "System Labels" ELSE "User Labels")
      [] OTHER -> f.v

\* what an item carries: its named fields and their values
Content(item) == {<<JsonName(item[i].k), Shapeless(item[i])>> : i \in 1..Len(item)}

Contents(items) == {Content(items[i]) : i \in 1..Len(items)}

\* the items of the last invocation's remote result, rendered in format fmt
RenderedIn(fmt) ==
    CASE req.op = "get_email" ->
           IF fmt = "json"
           THEN <<email_json(calls[1].ret, _decode_message_body(calls[1].ret.payload).body)>>
           ELSE <<email_markdown(calls[1].ret,
                                 _decode_message_body(calls[1].ret.payload).body)>>
      [] req.op = "search_emails" ->
           format_messages(Fetched(calls), 1, fmt, req.include_body, <<>>).items
      [] req.op = "list_labels" ->
           IF fmt = "json" THEN labels_json(labels) ELSE labels_markdown(labels)

\* C11: for search, get and listLabels and every remote result, the
\* structured and the human-readable rendering carry the same items and, per
\* item, the same named fields with the same values; nothing is present in
\* one format and omitted from the other.
C11_Claimed ==
    (Rendered /\ req.op \in {"get_email", "search_emails", "list_labels"}) =>
        /\ result.items = RenderedIn(req.response_format)
        /\ Len(RenderedIn("json")) = Len(RenderedIn("markdown"))
        /\ Contents(RenderedIn("json")) = Contents(RenderedIn("markdown"))

\* the last invocation is a search whose list call the remote answered
Listed == Served /\ req.op = "search_emails" /\ calls # <<>> /\ calls[1].exc = NoExc

\* the get calls of the last invocation
Gets == SubSeq(calls, 2, Len(calls))

\* no body of the fetched messages fails to decode
Decodable == format_messages(Fetched(calls), 1, req.response_format,
                             req.include_body, <<>>).exc = NoExc

\* the last invocation returned the classified failure of its last remote
\* call and nothing else
ErrorOnly == Raised # NoExc /\ result = _handle_api_error(Raised) /\ result.items = <<>>

\* C12: a search issues one list call, then one get call per listed id in
\* the listed order, stopping at a get that fails; when every get succeeded
\* the result has one summary per listed id in that order and a count equal
\* to the number of ids; when a get failed the result is the error alone,
\* with no summaries.
C12_ListThenGets ==
    (Served /\ req.op = "search_emails") =>
        /\ Len(calls) >= 1 /\ calls[1].api = "messages.list"
        /\ \A i \in 2..Len(calls) : calls[i].api = "messages.get"
        /\ calls[1].exc # NoExc => Len(calls) = 1 /\ ErrorOnly
        /\ Listed =>
             LET ids == calls[1].ret.messages IN
             /\ Len(Gets) <= Len(ids)
             /\ \A i \in 1..Len(Gets) :
                    /\ Gets[i].id = ids[i]
                    /\ i < Len(Gets) => Gets[i].exc = NoExc
             /\ IF \E i \in 1..Len(Gets) : Gets[i].exc # NoExc
                THEN ErrorOnly /\ result.count = 0
                ELSE /\ Len(Gets) = Len(ids)
                     /\ (ids # <<>> /\ Decodable) =>
                           /\ Rendered
                           /\ result.count = Len(ids)
                           /\ Len(result.items) = Len(ids)
                           /\ \A i \in 1..Len(ids) :
                                  /\ result.items[i][1].v = ids[i]
                                  /\ Gets[i].ret.id = ids[i]
                           /\ result.items = RenderedIn(req.response_format)

\* a search listed MaxListed ids, two of them equal, fetched each and
\* rendered them
C12_Witness ==
    /\ Listed /\ Rendered
    /\ Len(calls[1].ret.messages) = MaxListed
    /\ calls[1].ret.messages[1] # calls[1].ret.messages[2]
    /\ calls[1].ret.messages[1] = calls[1].ret.messages[3]
    /\ result.count = MaxListed

\* the second get of a search that listed three ids failed
C12_WitnessFailed ==
    /\ Listed /\ Len(calls[1].ret.messages) = 3
    /\ Len(calls) = 3 /\ calls[3].exc # NoExc

\* the positions of the headers whose name is name, letter case apart
Matches(headers, name) ==
    {i \in 1..Len(headers) : lower(headers[i].name) = lower(name)}

\* the value of the first of them, the empty string when there is none
FirstValue(headers, name) ==
    IF Matches(headers, name) = {} THEN <<>>
    ELSE headers[CHOOSE i \in Matches(headers, name) :
                    \A j \in Matches(headers, name) : i <= j].value

\* the last invocation is a reply that reached its send
Replied == Served /\ req.op = "reply_to_email" /\ Len(calls) = 2

\* the headers of the first message of the thread the reply fetched
Original == calls[1].ret.messages[1].payload.headers

\* the message the reply transmitted
Sent == calls[2].sent

C13_WitnessAll ==
    /\ Replied /\ req.reply_all
    /\ Len(calls[1].ret.messages) = 2
    /\ Sent.hasCc /\ Sent.Cc = u
    /\ FirstValue(calls[1].ret.messages[2].payload.headers, Cc) # u

\* does s start with 'Re:' in some letter case?
HasRePrefix(s) ==
    /\ Len(s) >= 3
    /\ s[1] \in {"R", "r"} /\ s[2] \in {"E", "e"} /\ s[3] = ":"

\* C14: the subject of the reply transmitted is the original subject when
\* that starts with 'Re:' in any letter case, and 'Re: ' followed by the
\* original subject otherwise; deriving the reply subject from the subject
\* transmitted gives it back.
C14_SubjectPrefixedOnce ==
    Replied =>
        /\ Sent.Subject = IF HasRePrefix(FirstValue(Original, Subject))
                          THEN FirstValue(Original, Subject)
                          ELSE <<"R", "e", ":", " ">> \o FirstValue(Original, Subject)
        /\ reply_subject(Sent.Subject) = Sent.Subject

\* a reply to a message whose subject starts with 'rE:' keeps the subject
C14_Witness ==
    /\ Replied
    /\ FirstValue(Original, Subject) = <<"r", "E", ":", " ", "q">>
    /\ Sent.Subject = <<"r", "E", ":", " ", "q">>

\* a reply to a message whose subject has 'Re:' after a blank is prefixed
C14_WitnessPrefixed ==
    /\ Replied
    /\ FirstValue(Original, Subject) = <<" ", "R", "e", ":">>
    /\ Sent.Subject = <<"R", "e", ":", " ", " ", "R", "e", ":">>

\* the last invocation fetched messages whose bodies it renders, and the
\* remote answered every call
Fetching ==
    /\ Served /\ calls # <<>>
    /\ \/ req.op = "get_email"
       \/ req.op = "search_emails" /\ req.include_body /\ Len(calls) > 1
    /\ \A i \in 1..Len(calls) : calls[i].exc = NoExc

\* the body a rendered item shows
BodyOf(item) ==
    item[CHOOSE i \in 1..Len(item) : item[i].k \in {"body", "Body"}].v

\* some data of the payload does not decode
HasMalformed(payload) ==
    \/ \E i \in 1..Len(payload.parts) : payload.parts[i].body.raises # NoExc
    \/ payload.body.raises # NoExc

\* C15: decoding lets no exception escape: a get or a search with bodies
\* whose remote calls all succeeded returns a normal result, in which a
\* message whose only body data is malformed has the empty body.
C15_Claimed ==
    Fetching =>
        /\ Rendered
        /\ Len(result.items) = Len(Fetched(calls))
        /\ \A i \in 1..Len(result.items) :
               (~Fetched(calls)[i].payload.hasParts
                    /\ HasMalformed(Fetched(calls)[i].payload)) =>
                   BodyOf(result.items[i]) = <<>>

Min(S) == CHOOSE i \in S : \A j \in S : i <= j

\* the positions of the parts of that type that carry data
WithData(parts, mimeType) ==
    {i \in 1..Len(parts) : parts[i].mimeType = mimeType /\ parts[i].body.present}

\* the position the scan of the parts ends at: the first text/plain part
\* that carries data, or past the last part
ScanEnd(parts) ==
    IF WithData(parts, "text/plain") = {} THEN Len(parts) + 1
    ELSE Min(WithData(parts, "text/plain"))

\* the text/html parts with data before the end of the scan
HtmlScanned(parts) == {i \in WithData(parts, "text/html") : i < ScanEnd(parts)}

\* the text/html parts the scan decodes: each part of HtmlScanned before
\* them decoded, and to the empty string
HtmlDecoded(parts) ==
    {i \in HtmlScanned(parts) :
        \A j \in HtmlScanned(parts) :
            j < i => parts[j].body.raises = NoExc /\ parts[j].body.text = <<>>}

\* the parts whose malformed data the scan decodes
Undecodable(parts) ==
    {i \in HtmlDecoded(parts) \cup (WithData(parts, "text/plain") \cap {ScanEnd(parts)}) :
        parts[i].body.raises # NoExc}

\* what decoding a payload gives, stated part by part: the exception of the
\* first malformed data decoded, or else the text of the first text/plain
\* part with data, or else that of the first text/html part with data that
\* is not empty; without a parts list, the direct body
Expected(payload) ==
    IF payload.hasParts THEN
        IF Undecodable(payload.parts) # {}
        THEN [exc |-> payload.parts[Min(Undecodable(payload.parts))].body.raises,
              body |-> <<>>]
        ELSE IF ScanEnd(payload.parts) <= Len(payload.parts)
        THEN [exc |-> NoExc, body |-> payload.parts[ScanEnd(payload.parts)].body.text]
        ELSE IF \E i \in HtmlDecoded(payload.parts) : payload.parts[i].body.text # <<>>
        THEN [exc |-> NoExc,
              body |-> payload.parts[Min({i \in HtmlDecoded(payload.parts) :
                                            payload.parts[i].body.text # <<>>})].body.text]
        ELSE [exc |-> NoExc, body |-> <<>>]
    ELSE IF payload.hasBody /\ payload.body.present /\ payload.body.raises # NoExc
    THEN [exc |-> payload.body.raises, body |-> <<>>]
    ELSE [exc |-> NoExc, body |-> IF payload.hasBody THEN payload.body.text ELSE <<>>]

\* the fetched messages whose body does not decode
Failing == {i \in 1..Len(Fetched(calls)) : Expected(Fetched(calls)[i].payload).exc # NoExc}

\* C16 (amended): the body a get or a search shows for a message is the
\* decoded data of the first text/plain part that carries data; when no
\* text/plain part carries data, that of the first text/html part whose
\* data decodes to a non-empty string; the direct body when the payload
\* has no parts list; the empty string when there is no such data.  When
\* data the scan decodes is malformed the invocation returns the decode
\* error instead.
C16_FirstWithData ==
    Fetching =>
        IF Failing # {}
        THEN result = _handle_api_error(Expected(Fetched(calls)[Min(Failing)].payload).exc)
        ELSE /\ Rendered
             /\ Len(result.items) = Len(Fetched(calls))
             /\ \A i \in 1..Len(result.items) :
                    BodyOf(result.items[i]) =
                        IF req.op = "search_emails" /\ req.response_format = "markdown"
                        THEN preview(Expected(Fetched(calls)[i].payload).body)
                        ELSE Expected(Fetched(calls)[i].payload).body

\* a get of a message whose first text/plain part has no data and whose
\* text/html part comes before a text/plain part with data: the body is
\* that of the later text/plain part
C16_Witness ==
    /\ Fetching /\ Rendered /\ req.op = "get_email"
    /\ Len(calls[1].ret.payload.parts) = 3
    /\ calls[1].ret.payload.parts[1] = Part("text/plain", NoData)
    /\ calls[1].ret.payload.parts[2].mimeType = "text/html"
    /\ calls[1].ret.payload.parts[2].body.present
    /\ BodyOf(result.items[1]) = <<"p", "3">>

\* the positions of the parts of that type
OfType(parts, mimeType) == {i \in 1..Len(parts) : parts[i].mimeType = mimeType}

\* the body as the claim words it: the first text/plain part's, else the
\* first text/html part's, the direct body without parts
Claimed(payload) ==
    IF ~payload.hasParts THEN (IF payload.hasBody THEN payload.body.text ELSE <<>>)
    ELSE IF OfType(payload.parts, "text/plain") # {}
    THEN payload.parts[Min(OfType(payload.parts, "text/plain"))].body.text
    ELSE IF OfType(payload.parts, "text/html") # {}
    THEN payload.parts[Min(OfType(payload.parts, "text/html"))].body.text
    ELSE <<>>

\* C16 as claimed, on the messages all of whose data decodes: the body is
\* that of the first text/plain part, else of the first text/html part,
\* else the direct body, else empty.
C16_Claimed ==
    (Fetching /\ req.op = "get_email" /\ ~HasMalformed(calls[1].ret.payload)) =>
        /\ Rendered
        /\ BodyOf(result.items[1]) = Claimed(calls[1].ret.payload)

\* the header a rendered field shows
HeaderOf(k) ==
    CASE k = "from" -> From [] k = "to" -> To [] k = "cc" -> Cc [] k = "bcc" -> Bcc
      [] k = "subject" -> Subject [] k = "date" -> Date

\* the values an item shows under the field k
Shown(item, k) == {item[j].v : j \in {i \in 1..Len(item) : JsonName(item[i].k) = k}}

\* the header fields every rendering of the last invocation has
HeaderFields ==
    IF req.op = "get_email" /\ req.response_format = "json"
    THEN {"from", "to", "cc", "bcc", "subject", "date"}
    ELSE {"from", "to", "subject", "date"}

\* C17: every header field a get or a search renders for a message has the
\* value of the first header of the message, in list order, whose name is
\* the requested one letter case apart, and the empty string when the
\* message has no such header; a message without the header is rendered,
\* not refused.
C17_FirstMatch ==
    /\ (Fetching /\ \A i \in 1..Len(Fetched(calls)) :
                        ~HasMalformed(Fetched(calls)[i].payload)) => Rendered
    /\ (Rendered /\ req.op \in {"get_email", "search_emails"}) =>
        /\ Len(result.items) = Len(Fetched(calls))
        /\ \A i \in 1..Len(result.items) : \A k \in HeaderFields :
               Shown(result.items[i], k) =
                   {FirstValue(Fetched(calls)[i].payload.headers, HeaderOf(k))}

\* a get of a message with two From headers and no To header shows the
\* first From and an empty To
C17_Witness ==
    /\ Rendered /\ req.op = "get_email" /\ req.response_format = "json"
    /\ calls[1].ret.payload.headers = <<Header(From, a), Header(From, b)>>
    /\ Shown(result.items[1], "from") = {a}
    /\ Shown(result.items[1], "to") = {<<>>}

\* a get of a message whose headers are named 'from', 'TO' and 'CC' shows
\* their values
C17_WitnessCase ==
    /\ Rendered /\ req.op = "get_email" /\ req.response_format = "json"
    /\ Len(calls[1].ret.payload.headers) = 3
    /\ calls[1].ret.payload.headers[1].name = <<"f", "r", "o", "m">>
    /\ Shown(result.items[1], "from") = {a}
    /\ Shown(result.items[1], "cc") = {u}

\* the step is an invocation that entered its handler
Entered == Invoked /\ session'.how # "notcalled"

====
